---------------------------- MODULE Spec2Model ----------------------------
(***************************************************************************)
(* A model of n8n-runner's dynamic type resolution and credential          *)
(* materialisation: CredentialTypes (credential-types.ts), NodeTypes       *)
(* (node-types.ts), CredentialsOverwrites, CredentialsHelper and Runner.   *)
(*                                                                         *)
(* Strings the code takes apart (charAt, slice, lastIndexOf, toLowerCase)  *)
(* are sequences of units: a unit is one character, or a chunk of          *)
(* characters that no operation of the code ever splits.                   *)
(***************************************************************************)
EXTENDS Integers, Sequences, FiniteSets, TLC

(***************************************************************************)
(* Bounds of the model.                                                    *)
(***************************************************************************)
\* The depth of nested calls the JavaScript engine allows before it throws
\* RangeError('Maximum call stack size exceeded').
MaxStack == 6

\* The longest `extends` list of a seeded known-credentials entry.
MaxExtends == 2

(***************************************************************************)
(* Values.                                                                 *)
(***************************************************************************)
typeA == <<"t", "ypeA">>
typeB == <<"t", "ypeB">>
typeC == <<"t", "ypeC">>

\* The credential type names the known-type index is seeded with and the
\* operations are called with.
TypeNames == {typeA, typeB, typeC}

\* The message of an error: its fixed text, the name it quotes, the module
\* paths it lists and (at most one) message it embeds after its own text.
Message(text, subject, paths, cause) ==
    [text |-> text, subject |-> subject, paths |-> paths, cause |-> cause]

\* What a call gives back: the value it returned or the error it threw
\* (each held in a sequence of length one or zero).
Returned(v) == [threw |-> FALSE, value |-> <<v>>, error |-> <<>>]

Thrown(name, message) ==
    [threw |-> TRUE, value |-> <<>>, error |-> <<[name |-> name, message |-> message]>>]

\* The engine's error for a recursion that exhausts the call stack.
StackOverflow ==
    Thrown("RangeError", Message("Maximum call stack size exceeded", <<>>, <<>>, <<>>))

\* The error the tests expect of a cyclic hierarchy.
CircularReference(typeName) ==
    Thrown("Error",
           Message("Circular reference detected in credential type hierarchy: ",
                   typeName, <<>>, <<>>))

\* The sequences over S of length at most n.
RECURSIVE ListsUpTo(_, _)
ListsUpTo(S, n) ==
    IF n = 0 THEN {<<>>}
    ELSE LET shorter == ListsUpTo(S, n - 1)
         IN shorter \cup {Append(l, x) : l \in {s \in shorter : Len(s) = n - 1},
                                         x \in S}

Range(s) == {s[i] : i \in 1..Len(s)}

NoRepeat(s) == Cardinality(Range(s)) = Len(s)

\* One entry of knownCredentials: { extends?: string[] }.
KnownEntries ==
    {[hasExtends |-> FALSE, extends |-> <<>>]}
    \cup {[hasExtends |-> TRUE, extends |-> e] :
             e \in {l \in ListsUpTo(TypeNames, MaxExtends) : NoRepeat(l)}}

\* The known-type indices a registry may be seeded with (the empty one is
\* the index of a registry nobody seeded).
KnownIndices == UNION {[S -> KnownEntries] : S \in SUBSET TypeNames}

(***************************************************************************)
(* String operations of the code.                                          *)
(***************************************************************************)
\* String.prototype.toUpperCase and toLowerCase, unit by unit: the
\* characters with another case, and the chunks toLowerCase changes.
toUpperCase(s) ==
    LET UpperCaseOf ==
            [u \in {"a", "b", "c", "e", "g", "i", "m", "o", "s", "t", "u"} |->
                CASE u = "a" -> "A" [] u = "b" -> "B" [] u = "c" -> "C"
                  [] u = "e" -> "E" [] u = "g" -> "G" [] u = "i" -> "I"
                  [] u = "m" -> "M" [] u = "o" -> "O" [] u = "s" -> "S"
                  [] u = "t" -> "T" [] u = "u" -> "U"]
    IN [i \in 1..Len(s) |->
           IF s[i] \in DOMAIN UpperCaseOf THEN UpperCaseOf[s[i]] ELSE s[i]]

toLowerCase(s) ==
    LET LowerCaseOf ==
            [u \in {"A", "B", "C", "E", "G", "I", "M", "O", "S", "T", "U", "GENT"} |->
                CASE u = "A" -> "a" [] u = "B" -> "b" [] u = "C" -> "c"
                  [] u = "E" -> "e" [] u = "G" -> "g" [] u = "I" -> "i"
                  [] u = "M" -> "m" [] u = "O" -> "o" [] u = "S" -> "s"
                  [] u = "T" -> "t" [] u = "U" -> "u" [] u = "GENT" -> "gent"]
    IN [i \in 1..Len(s) |->
           IF s[i] \in DOMAIN LowerCaseOf THEN LowerCaseOf[s[i]] ELSE s[i]]

\* The 0-based index of the first ch, as s.indexOf(ch) gives it.
lastIndexOf_FirstOccurrence(s, ch) ==
    LET at == {i \in 1..Len(s) : s[i] = ch}
    IN IF at = {} THEN -1 ELSE (CHOOSE i \in at : \A j \in at : i <= j) - 1

\* s.lastIndexOf(ch): the 0-based index of the last ch, -1 when there is none.
lastIndexOf(s, ch) ==
    LET at == {i \in 1..Len(s) : s[i] = ch}
    IN IF at = {} THEN -1 ELSE (CHOOSE i \in at : \A j \in at : j <= i) - 1

\* s.substring(start, end): 0-based, end excluded, each index clamped to
\* 0..length and the two swapped when start > end.
substring(s, start, end) ==
    LET clamp(n) == IF n < 0 THEN 0 ELSE IF n > Len(s) THEN Len(s) ELSE n
        a == clamp(start)
        b == clamp(end)
    IN IF a <= b THEN SubSeq(s, a + 1, b) ELSE SubSeq(s, b + 1, a)

\* s.charAt(0).toUpperCase() + s.slice(1); charAt(0) of the empty string is
\* the empty string.
PascalCase(s) ==
    IF Len(s) = 0 THEN <<>> ELSE toUpperCase(<<s[1]>>) \o Tail(s)

(***************************************************************************)
(* CredentialTypes.getParentTypes                                          *)
(***************************************************************************)
\* this.knownCredentials[typeName]?.extends ?? []
extendsArrOf(known, typeName) ==
    IF typeName \in DOMAIN known /\ known[typeName].hasExtends
    THEN known[typeName].extends
    ELSE <<>>

RECURSIVE getParentTypesAt(_, _, _)
RECURSIVE pushParents(_, _, _, _, _)

\* The for loop left out: only the direct parents are returned.
pushParents_DirectOnly(known, extendsArr, i, extendsArrCopy, depth) ==
    Returned(extendsArrCopy)

\* The for loop of getParentTypes from its i-th parent on: extendsArrCopy
\* gets the parents' own parent types pushed; a throw of a nested call ends it.
pushParents(known, extendsArr, i, extendsArrCopy, depth) ==
    IF i > Len(extendsArr) THEN Returned(extendsArrCopy)
    ELSE LET nested == getParentTypesAt(known, extendsArr[i], depth + 1)
         IN IF nested.threw THEN nested
            ELSE pushParents(known, extendsArr, i + 1,
                             extendsArrCopy \o nested.value[1], depth)

\* getParentTypes(typeName) called at call depth `depth`.
getParentTypesAt(known, typeName, depth) ==
    IF depth > MaxStack THEN StackOverflow
    ELSE LET extendsArr == extendsArrOf(known, typeName)
         IN IF Len(extendsArr) = 0 THEN Returned(<<>>)
            ELSE pushParents(known, extendsArr, 1, extendsArr, depth)

getParentTypes(known, typeName) == getParentTypesAt(known, typeName, 1)

\* recognizes(type): type in this.knownCredentials || type in this.loadedCredentials
recognizes(known, loaded, type) == type \in DOMAIN known \/ type \in DOMAIN loaded

\* getSupportedNodes(type): this.knownCredentials[type]?.supportedNodes ?? []
getSupportedNodes(known, type) ==
    IF type \in DOMAIN known /\ "supportedNodes" \in DOMAIN known[type]
    THEN known[type].supportedNodes
    ELSE <<>>

\* typeName lies on a cycle of the index's extends relation.
RECURSIVE ReachableIn(_, _, _)
ReachableIn(known, from, n) ==
    IF n = 0 THEN {}
    ELSE LET direct == Range(extendsArrOf(known, from))
         IN direct \cup UNION {ReachableIn(known, p, n - 1) : p \in direct}

Ancestors(known, typeName) == ReachableIn(known, typeName, Cardinality(TypeNames))

OnCycle(known, typeName) == typeName \in Ancestors(known, typeName)

(***************************************************************************)
(* Node type identifiers, module paths and the modules the environment     *)
(* holds (what require and require.resolve find).                          *)
(***************************************************************************)
idSet == <<"n8n-nodes-base", ".", "s", "et">>
idCode == <<"n8n-nodes-base", ".", "c", "ode">>
idBroken == <<"n8n-nodes-base", ".", "b", "roken">>
idEmpty == <<"n8n-nodes-base", ".", "e", "mpty">>
idMissing == <<"n8n-nodes-base", ".", "m", "issing">>
idAgent == <<"@n8n/n8n-nodes-langchain", ".", "a", "gent">>
idCustom == <<"my-nodes", ".", "t", "estNode">>
idNoDot == <<"i", "nvalidFormat">>
idDots == <<"a", ".", "b", ".", "c">>

\* The identifiers the operations of a registry are called with.
NodeTypeNames ==
    {idSet, idCode, idBroken, idEmpty, idMissing, idAgent, idCustom, idNoDot, idDots}

\* `${root}/${subdir}/${dir}/${cls}.node.js` (no subdir part when it is "").
ModulePath(root, subdir, dir, cls) ==
    [root |-> root, subdir |-> subdir, dir |-> dir, cls |-> cls]

\* A node class: what `new` of it does and whether its instances are
\* versioned node types.
NodeClass(name, ctorThrows, versioned) ==
    [name |-> name, ctorThrows |-> ctorThrows, versioned |-> versioned]

SetClass == NodeClass("Set", FALSE, FALSE)
CodeClass == NodeClass("Code", FALSE, TRUE)
AgentClass == NodeClass("Agent", FALSE, FALSE)
BrokenClass == NodeClass("Broken", TRUE, FALSE)
OtherClass == NodeClass("Other", FALSE, FALSE)
TestNode == NodeClass("TestNode", FALSE, FALSE)
MockCustomNode == NodeClass("MockCustomNode", FALSE, FALSE)

\* A module: its exports in key order.
Export(key, cls) == [key |-> key, cls |-> cls]

\* The root getPathForClass finds for the package class MyNodesPackage.
MyNodesRoot == "/app/packages/my-nodes"

codePath == ModulePath("n8n-nodes-base/dist/nodes", "", <<"c", "ode">>, <<"C", "ode">>)

\* Modules that may be installed while the program runs.
OptionalModules == {codePath}

\* path -> module, for the paths a plain require(path) loads.
DirectModules(installed) ==
    [p \in {ModulePath("n8n-nodes-base/dist/nodes", "", <<"S", "et">>, <<"S", "et">>),
            ModulePath("n8n-nodes-base/dist/nodes", "", <<"B", "roken">>, <<"B", "roken">>),
            ModulePath("n8n-nodes-base/dist/nodes", "", <<"E", "mpty">>, <<"E", "mpty">>),
            ModulePath("@n8n/n8n-nodes-langchain/dist/nodes", "agents",
                       <<"A", "gent">>, <<"A", "gent">>)}
           \cup installed |->
        CASE p.cls = <<"S", "et">>
                 -> <<Export(<<"s", "et">>, OtherClass), Export(<<"default">>, OtherClass),
                      Export(<<"S", "et">>, SetClass)>>
          [] p.cls = <<"B", "roken">> -> <<Export(<<"B", "roken">>, BrokenClass)>>
          [] p.cls = <<"E", "mpty">> -> <<Export(<<"O", "ther">>, OtherClass)>>
          [] p.cls = <<"A", "gent">>
                 -> <<Export(<<"O", "ther">>, OtherClass), Export(<<"A", "GENT">>, AgentClass),
                      Export(<<"a", "GENT">>, OtherClass)>>
          [] p.cls = <<"C", "ode">>
                 -> <<Export(<<"c", "ode">>, OtherClass), Export(<<"default">>, CodeClass)>>]

\* path -> module, for the paths only require.resolve with the working
\* directory among its search paths finds.
ResolvedModules ==
    [p \in {ModulePath(MyNodesRoot, "nodes", <<"t", "estNode">>, <<"T", "estNode">>)} |->
        <<Export(<<"O", "ther">>, OtherClass), Export(<<"default">>, TestNode)>>]

\* The package classes a registry is constructed with and the path
\* getPathForClass gives each (none: null, the class is in no loaded module).
MyNodesPackage == "MyNodesPackage"
NotLoadedClass == "NotLoadedClass"

(***************************************************************************)
(* class-utils.ts                                                          *)
(***************************************************************************)
\* getPathForClass(classConstructor): the path of the module of require.cache
\* that exports the class, or null (here <<>>) when none does.
getPathForClass(classConstructor) ==
    IF classConstructor = MyNodesPackage THEN <<MyNodesRoot>> ELSE <<>>

(***************************************************************************)
(* NodeTypes (node-types.ts)                                               *)
(***************************************************************************)
\* What the constructor may be handed: nothing, an array of package classes
\* (its declared parameter), or the identifier -> constructor mapping that
\* Runner.init and the tests pass.
NoArgument == [kind |-> "undefined", packages |-> <<>>, classes |-> {}]

PackagesArgument(list) == [kind |-> "packages", packages |-> list, classes |-> {}]

MappingArgument(pairs) == [kind |-> "mapping", packages |-> <<>>, classes |-> pairs]

\* customNodePackages.map(getPathForClass).filter((p) => p !== null)
RECURSIVE mapFilterPaths(_)
mapFilterPaths(list) ==
    IF list = <<>> THEN <<>>
    ELSE getPathForClass(Head(list)) \o mapFilterPaths(Tail(list))

\* new NodeTypes(customNodePackages): the customPaths of the new registry.
\* A mapping is an object without a map method: calling it throws.
NodeTypesConstructor(customNodePackages) ==
    IF customNodePackages.kind = "undefined" THEN Returned(<<>>)
    ELSE IF customNodePackages.kind = "packages"
         THEN Returned(mapFilterPaths(customNodePackages.packages))
         ELSE Thrown("TypeError",
                     Message("customNodePackages.map is not a function", <<>>, <<>>, <<>>))

NotLoadedMessage(nodeType) == Message("Node type is not loaded", nodeType, <<>>, <<>>)

\* getByName without its check of the lookup: an absent entry is returned
\* as the undefined it is.
getByName_Unchecked(loaded, nodeType) ==
    IF nodeType \in DOMAIN loaded
    THEN Returned(loaded[nodeType])
    ELSE Returned([cls |-> "undefined", serial |-> 0, versioned |-> FALSE,
                   version |-> <<>>])

\* getByName(nodeType)
NodeTypes_getByName(loaded, nodeType) ==
    IF nodeType \in DOMAIN loaded
    THEN Returned(loaded[nodeType])
    ELSE Thrown("Error", NotLoadedMessage(nodeType))

\* NodeHelpers.getVersionedNodeType(node, version): a versioned node type
\* gives the node of that version (of its default version without one), any
\* other node is given back as it is.
getVersionedNodeType(node, version) ==
    IF node.versioned
    THEN [node EXCEPT !.versioned = FALSE,
                      !.version = IF version = <<>> THEN <<2>> ELSE version]
    ELSE node

\* getByNameAndVersion(nodeType, version)
getByNameAndVersion(loaded, nodeType, version) ==
    LET node == NodeTypes_getByName(loaded, nodeType)
    IN IF node.threw THEN node
       ELSE Returned(getVersionedNodeType(node.value[1], version))

\* getKnownTypes(): { name: { className: name } } for every loaded name.
getKnownTypes(loaded) == [name \in DOMAIN loaded |-> [className |-> name]]

\* NodeTypes.requireModule(modulePath): require, then require.resolve from
\* the working directory; the error of the second attempt is the one thrown.
requireModule(installed, modulePath) ==
    IF modulePath \in DOMAIN DirectModules(installed)
    THEN Returned(DirectModules(installed)[modulePath])
    ELSE IF modulePath \in DOMAIN ResolvedModules
         THEN Returned(ResolvedModules[modulePath])
         ELSE Thrown("Error", Message("Cannot find module", <<>>, <<modulePath>>, <<>>))

\* The message with the last candidate as the only path listed.
CouldNotFindModule_LastPathOnly(possiblePaths, lastError) ==
    Message("Could not find module. Tried paths: , Last error: ", <<>>,
            IF possiblePaths = <<>> THEN <<>>
            ELSE <<possiblePaths[Len(possiblePaths)]>>,
            IF lastError = <<>> THEN <<>> ELSE <<lastError[1].message>>)

CouldNotFindModule(possiblePaths, lastError) ==
    Message("Could not find module. Tried paths: , Last error: ", <<>>, possiblePaths,
            IF lastError = <<>> THEN <<>> ELSE <<lastError[1].message>>)

\* The loop without its `return`: every candidate is required and the last
\* module that loaded is the one returned.
tryLoadModuleFrom_KeepsTrying(installed, possiblePaths, i, lastError, tried) ==
    LET loads == {k \in 1..Len(possiblePaths) :
                     ~requireModule(installed, possiblePaths[k]).threw}
        fails == (1..Len(possiblePaths)) \ loads
    IN [result |->
            IF loads # {}
            THEN requireModule(installed,
                               possiblePaths[CHOOSE k \in loads : \A l \in loads : l <= k])
            ELSE Thrown("Error",
                        CouldNotFindModule(
                            possiblePaths,
                            IF fails = {} THEN <<>>
                            ELSE requireModule(
                                     installed,
                                     possiblePaths[CHOOSE k \in fails :
                                                      \A l \in fails : l <= k]).error)),
        tried |-> possiblePaths]

\* NodeTypes.tryLoadModule(possiblePaths) from candidate i on; `tried` are
\* the paths requireModule was called with so far.
RECURSIVE tryLoadModuleFrom(_, _, _, _, _)
tryLoadModuleFrom(installed, possiblePaths, i, lastError, tried) ==
    IF i > Len(possiblePaths)
    THEN [result |-> Thrown("Error", CouldNotFindModule(possiblePaths, lastError)),
          tried |-> tried]
    ELSE LET loaded == requireModule(installed, possiblePaths[i])
         IN IF ~loaded.threw
            THEN [result |-> loaded, tried |-> Append(tried, possiblePaths[i])]
            ELSE tryLoadModuleFrom(installed, possiblePaths, i + 1, loaded.error,
                                   Append(tried, possiblePaths[i]))

tryLoadModule(installed, possiblePaths) ==
    tryLoadModuleFrom(installed, possiblePaths, 1, <<>>, <<>>)

\* The subdirectories langchain nodes are looked for in, in this order.
subdirs ==
    <<"llms", "embeddings", "vendors", "chains", "agents", "tools", "vectorstores",
      "memory", "document_loaders", "retrievers", "text_splitters">>

\* The candidate paths when every package that is not the langchain one is
\* looked for among the base nodes.
possiblePathsOf_AssumesBase(customPaths, packageName, nodeName, className) ==
    <<ModulePath("n8n-nodes-base/dist/nodes", "", className, className),
      ModulePath("n8n-nodes-base/dist/nodes", "", nodeName, className)>>
    \o [i \in 1..(2 * Len(customPaths)) |->
            ModulePath(customPaths[(i + 1) \div 2], "nodes",
                       IF i % 2 = 1 THEN className ELSE nodeName, className)]

\* The candidate paths of loadNodeType, in the order they are pushed.
possiblePathsOf(customPaths, packageName, nodeName, className) ==
    LET packagePaths ==
            IF packageName = <<"n8n-nodes-base">>
            THEN <<ModulePath("n8n-nodes-base/dist/nodes", "", className, className),
                   ModulePath("n8n-nodes-base/dist/nodes", "", nodeName, className)>>
            ELSE IF packageName = <<"@n8n/n8n-nodes-langchain">>
                 THEN [i \in 1..Len(subdirs) |->
                          ModulePath("@n8n/n8n-nodes-langchain/dist/nodes", subdirs[i],
                                     className, className)]
                      \o <<ModulePath("@n8n/n8n-nodes-langchain/dist/nodes", "",
                                      className, className)>>
                 ELSE <<>>
        customAt(i) ==
            IF i % 2 = 1
            THEN ModulePath(customPaths[(i + 1) \div 2], "nodes", className, className)
            ELSE ModulePath(customPaths[i \div 2], "nodes", nodeName, className)
    IN packagePaths \o [i \in 1..(2 * Len(customPaths)) |-> customAt(i)]

\* mod[key]: the class exported under key, <<>> for undefined.
exportOf(mod, key) ==
    LET at == {i \in 1..Len(mod) : mod[i].key = key}
    IN IF at = {} THEN <<>> ELSE <<mod[CHOOSE i \in at : TRUE].cls>>

\* The first export whose key equals className ignoring case.
RECURSIVE scanKeys(_, _, _)
scanKeys(mod, className, i) ==
    IF i > Len(mod) THEN <<>>
    ELSE IF toLowerCase(mod[i].key) = toLowerCase(className) THEN <<mod[i].cls>>
         ELSE scanKeys(mod, className, i + 1)

\* A selection that takes the default export before the named one.
nodeClassOf_DefaultFirst(mod, className) ==
    LET default == exportOf(mod, <<"default">>)
        first == IF default # <<>> THEN default ELSE exportOf(mod, className)
    IN IF first # <<>> THEN first ELSE scanKeys(mod, className, 1)

\* (mod[className] || mod.default), then the scan of Object.keys(mod).
nodeClassOf(mod, className) ==
    LET named == exportOf(mod, className)
        first == IF named # <<>> THEN named ELSE exportOf(mod, <<"default">>)
    IN IF first # <<>> THEN first ELSE scanKeys(mod, className, 1)

\* new NodeClass(): the instance, the serial-th object the registry created.
newInstance(cls, serial) ==
    [cls |-> cls.name, serial |-> serial, versioned |-> cls.versioned, version |-> <<>>]

\* The wrapping error without the message of its cause.
FailedToLoad_WithoutCause(nodeTypeName, error) ==
    Thrown("Error", Message("Failed to load node type : ", nodeTypeName, <<>>, <<>>))

FailedToLoad(nodeTypeName, error) ==
    Thrown("Error", Message("Failed to load node type : ", nodeTypeName, <<>>,
                            <<error.message>>))

\* The outcome of a call that remembers its failure: a failed identifier is
\* entered into loadedNodes.
LoadOutcome_RemembersFailure(result, loaded, created, tried, constructed) ==
    [result |-> result,
     loadedNodes |-> IF result.threw
                     THEN (result.error[1].message.subject :> <<>>) @@ loaded
                     ELSE loaded,
     created |-> created, tried |-> tried, constructed |-> constructed]

\* What one loadNodeType call did: its outcome, the loadedNodes and the count
\* of created instances it leaves, the paths it had requireModule try and the
\* classes it called `new` on.
LoadOutcome(result, loaded, created, tried, constructed) ==
    [result |-> result, loadedNodes |-> loaded, created |-> created, tried |-> tried,
     constructed |-> constructed]

\* loadNodeType(nodeTypeName) past its already-loaded check, on a registry
\* with these customPaths and loadedNodes, that has created `created`
\* instances so far.
discoverNodeType(installed, customPaths, loaded, created, nodeTypeName) ==
    LET lastDotIndex == lastIndexOf(nodeTypeName, ".")
        packageName == substring(nodeTypeName, 0, lastDotIndex)
        nodeName == substring(nodeTypeName, lastDotIndex + 1, Len(nodeTypeName))
        className == PascalCase(nodeName)
        possiblePaths == possiblePathsOf(customPaths, packageName, nodeName, className)
        nodeModule == tryLoadModule(installed, possiblePaths)
    IN IF nodeModule.result.threw
       THEN LoadOutcome(FailedToLoad(nodeTypeName, nodeModule.result.error[1]),
                        loaded, created, nodeModule.tried, <<>>)
       ELSE
       LET found == nodeClassOf(nodeModule.result.value[1], className)
       IN IF found = <<>>
          THEN LoadOutcome(
                   FailedToLoad(nodeTypeName,
                       [name |-> "Error",
                        message |-> Message("Could not find class  in module",
                                            className, <<>>, <<>>)]),
                   loaded, created, nodeModule.tried, <<>>)
          ELSE IF found[1].ctorThrows
               THEN LoadOutcome(
                        FailedToLoad(nodeTypeName,
                            [name |-> "Error",
                             message |-> Message("constructor failed", <<>>, <<>>, <<>>)]),
                        loaded, created, nodeModule.tried, <<found[1].name>>)
               ELSE LoadOutcome(
                        Returned(<<>>),
                        (nodeTypeName :> newInstance(found[1], created + 1)) @@ loaded,
                        created + 1, nodeModule.tried, <<found[1].name>>)

\* loadNodeType without its already-loaded check.
loadNodeType_Reloads(installed, customPaths, loaded, created, nodeTypeName) ==
    discoverNodeType(installed, customPaths, loaded, created, nodeTypeName)

\* loadNodeType(nodeTypeName)
loadNodeType(installed, customPaths, loaded, created, nodeTypeName) ==
    IF nodeTypeName \in DOMAIN loaded
    THEN LoadOutcome(Returned(<<>>), loaded, created, <<>>, <<>>)
    ELSE discoverNodeType(installed, customPaths, loaded, created, nodeTypeName)

\* The types of the nodes without the Set: every occurrence is kept.
uniqueTypes_KeepsDuplicates(types) == types

\* new Set(nodes.map((n) => n.type)) in its iteration order: the types in
\* the order of their first occurrence.
RECURSIVE uniqueTypesOf(_)
uniqueTypesOf(types) ==
    IF types = <<>> THEN <<>>
    ELSE LET before == uniqueTypesOf(SubSeq(types, 1, Len(types) - 1))
             last == types[Len(types)]
         IN IF last \in Range(before) THEN before ELSE Append(before, last)

(***************************************************************************)
(* Credential types, the modules that export their classes and the         *)
(* descriptors the classes construct.                                      *)
(***************************************************************************)
oAuth1Api == <<"o", "Auth1Api">>
oAuth2Api == <<"o", "Auth2Api">>
multiApi == <<"m", "ultiApi">>
googleOAuth2Api == <<"g", "oogleOAuth2Api">>
googlePalmApi == <<"g", "ooglePalmApi">>
unknownApi == <<"u", "nknownApi">>

\* The credential types the operations of the helper are called with.
CredentialTypeNames ==
    {oAuth1Api, oAuth2Api, googleOAuth2Api, googlePalmApi, multiApi, typeA, typeB,
     unknownApi}

\* One INodeProperties entry of a credential schema: its name, its default
\* and whether it is left out of what a child type inherits; `unresolvable`
\* marks a property whose display dependencies getNodeParameters cannot
\* resolve.
Property(name, default, unresolvable) ==
    [name |-> name, default |-> default, doNotInherit |-> FALSE,
     unresolvable |-> unresolvable]

\* The property getCredentialsProperties adds to the OAuth base types.
OauthTokenDataProperty == Property("oauthTokenData", "{}", FALSE)

\* A credential class: the descriptor `new` of it gives (`extends` is <<>>
\* for undefined, else <<list>>) and whether its constructor throws.
CredentialClass(name, properties, extends, ctorThrows) ==
    [name |-> name, properties |-> properties, extends |-> extends,
     ctorThrows |-> ctorThrows]

\* `${root}/dist/credentials/${cls}.credentials.js`
CredentialPath(root, cls) == [root |-> root, dir |-> "dist/credentials", cls |-> cls]

\* The credential modules of an installation, and those that may be added
\* to it while the program runs.
StandardCredentialModules ==
    {CredentialPath("n8n-nodes-base", <<"O", "Auth1Api">>),
     CredentialPath("n8n-nodes-base", <<"O", "Auth2Api">>),
     CredentialPath("n8n-nodes-base", <<"G", "oogleOAuth2Api">>),
     CredentialPath("@n8n/n8n-nodes-langchain", <<"G", "ooglePalmApi">>),
     CredentialPath("@n8n/n8n-nodes-langchain", <<"M", "ultiApi">>),
     CredentialPath("n8n-nodes-base", <<"T", "ypeA">>),
     CredentialPath("@n8n/n8n-nodes-langchain", <<"T", "ypeB">>)}

OptionalCredentialModules ==
    {CredentialPath("n8n-nodes-base", <<"G", "ooglePalmApi">>),
     CredentialPath("@n8n/n8n-nodes-langchain", <<"O", "Auth2Api">>)}

\* Further modules a deployment may carry: a langchain module whose only
\* export is `default`, an n8n-nodes-base module whose class has a
\* constructor that throws, and three modules whose descriptors are
\* misconfigured: echoApi and mirrorApi extend each other, sideApi extends
\* oAuth2Api and echoApi.
ExtraCredentialModules ==
    {CredentialPath("@n8n/n8n-nodes-langchain", <<"U", "nknownApi">>),
     CredentialPath("n8n-nodes-base", <<"T", "ypeB">>),
     CredentialPath("n8n-nodes-base", <<"E", "choApi">>),
     CredentialPath("@n8n/n8n-nodes-langchain", <<"M", "irrorApi">>),
     CredentialPath("n8n-nodes-base", <<"S", "ideApi">>)}

\* The credential modules a plain require(path) does not find: only
\* require.resolve with the working directory among its paths does.
CwdCredentialModules == {CredentialPath("@n8n/n8n-nodes-langchain", <<"T", "ypeB">>)}

\* path -> the exports of the module at that path.
CredentialModuleAt ==
    [p \in StandardCredentialModules \cup OptionalCredentialModules
            \cup ExtraCredentialModules |->
        CASE p = CredentialPath("n8n-nodes-base", <<"O", "Auth1Api">>)
                 -> <<Export(<<"O", "Auth1Api">>,
                             CredentialClass("OAuth1Api",
                                             <<Property("consumerKey", "", FALSE)>>,
                                             <<>>, FALSE))>>
          [] p = CredentialPath("n8n-nodes-base", <<"O", "Auth2Api">>)
                 -> <<Export(<<"O", "Auth2Api">>,
                             CredentialClass("OAuth2Api",
                                             <<Property("clientId", "", FALSE),
                                               Property("scope", "", FALSE)>>,
                                             <<>>, FALSE))>>
          [] p = CredentialPath("@n8n/n8n-nodes-langchain", <<"O", "Auth2Api">>)
                 -> <<Export(<<"O", "Auth2Api">>,
                             CredentialClass("LangchainOAuth2Api",
                                             <<Property("clientId", "lc", FALSE)>>,
                                             <<>>, FALSE))>>
          [] p = CredentialPath("n8n-nodes-base", <<"G", "oogleOAuth2Api">>)
                 -> <<Export(<<"G", "oogleOAuth2Api">>,
                             CredentialClass("GoogleOAuth2Api",
                                             <<Property("scope", "google", FALSE)>>,
                                             <<(<<oAuth2Api>>)>>, FALSE))>>
          [] p \in {CredentialPath("n8n-nodes-base", <<"G", "ooglePalmApi">>),
                    CredentialPath("@n8n/n8n-nodes-langchain", <<"G", "ooglePalmApi">>)}
                 -> <<Export(IF p.root = "n8n-nodes-base" THEN <<"default">>
                             ELSE <<"G", "ooglePalmApi">>,
                             CredentialClass("GooglePalmApi",
                                             <<Property("host", "palm", FALSE),
                                               Property("apiKey", "", FALSE),
                                               Property("scope", "palm", FALSE)>>,
                                             <<>>, FALSE))>>
          [] p = CredentialPath("@n8n/n8n-nodes-langchain", <<"M", "ultiApi">>)
                 -> <<Export(<<"M", "ultiApi">>,
                             CredentialClass("MultiApi",
                                             <<Property("apiKey", "multi", FALSE),
                                               Property("region", "", FALSE)>>,
                                             <<(<<googlePalmApi, googleOAuth2Api>>)>>,
                                             FALSE))>>
          [] p = CredentialPath("n8n-nodes-base", <<"T", "ypeA">>)
                 -> <<Export(<<"T", "ypeA">>,
                             CredentialClass("TypeA", <<Property("clientId", "", FALSE)>>,
                                             <<>>, FALSE))>>
          [] p = CredentialPath("@n8n/n8n-nodes-langchain", <<"T", "ypeB">>)
                 -> <<Export(<<"T", "ypeB">>,
                             CredentialClass("TypeB", <<Property("scope", "", TRUE)>>,
                                             <<>>, FALSE))>>
          [] p = CredentialPath("@n8n/n8n-nodes-langchain", <<"U", "nknownApi">>)
                 -> <<Export(<<"default">>,
                             CredentialClass("UnknownApi", <<>>, <<>>, FALSE))>>
          [] p = CredentialPath("n8n-nodes-base", <<"T", "ypeB">>)
                 -> <<Export(<<"T", "ypeB">>,
                             CredentialClass("BaseTypeB", <<>>, <<>>, TRUE))>>
          [] p = CredentialPath("n8n-nodes-base", <<"E", "choApi">>)
                 -> <<Export(<<"E", "choApi">>,
                             CredentialClass("EchoApi", <<Property("echo", "", FALSE)>>,
                                             <<(<<(<<"m", "irrorApi">>)>>)>>, FALSE))>>
          [] p = CredentialPath("@n8n/n8n-nodes-langchain", <<"M", "irrorApi">>)
                 -> <<Export(<<"M", "irrorApi">>,
                             CredentialClass("MirrorApi",
                                             <<Property("mirror", "", FALSE)>>,
                                             <<(<<(<<"e", "choApi">>)>>)>>, FALSE))>>
          [] p = CredentialPath("n8n-nodes-base", <<"S", "ideApi">>)
                 -> <<Export(<<"S", "ideApi">>,
                             CredentialClass("SideApi",
                                             <<Property("clientId", "side", FALSE)>>,
                                             <<(<<oAuth2Api, <<"e", "choApi">>>>)>>,
                                             FALSE))>>]

(***************************************************************************)
(* CredentialTypes.getByName and the dynamic loading behind it.            *)
(***************************************************************************)
\* tryRequireModule(modulePath): require, then require.resolve from the
\* working directory, whose error is the one thrown.
tryRequireModule(modules, modulePath) ==
    IF modulePath \in modules \ CwdCredentialModules
    THEN Returned(CredentialModuleAt[modulePath])
    ELSE IF modulePath \in modules
         THEN Returned(CredentialModuleAt[modulePath])
         ELSE Thrown("Error", Message("Cannot find module", <<>>, <<modulePath>>, <<>>))

\* What a call on the credential registry did: its outcome, the
\* loadedCredentials it leaves, the paths tryRequireModule was called with,
\* the classes `new` was called on and the errors handed to logger.error.
TypesOutcome(result, loaded, tried, constructed, logged) ==
    [result |-> result, loadedCredentials |-> loaded, tried |-> tried,
     constructed |-> constructed, logged |-> logged]

\* One try block of loadCredentialType, for the namespace `root`: <<entry>>
\* when it stored an entry and returned, <<>> when it ended without; the
\* path it tried, the class it called `new` on and the error its catch got.
loadFromNamespace(modules, root, pascalCaseType) ==
    LET credentialPath == CredentialPath(root, pascalCaseType)
        outcome(entry, constructed, failed) ==
            [entry |-> entry, tried |-> <<credentialPath>>,
             constructed |-> constructed, failed |-> failed]
        ofExport(exported) ==
            IF exported = <<>> THEN outcome(<<>>, <<>>, <<>>)
            ELSE IF exported[1].ctorThrows
                 THEN outcome(<<>>, <<exported[1].name>>,
                              <<[name |-> "Error",
                                 message |-> Message("constructor failed", <<>>, <<>>,
                                                     <<>>)]>>)
                 ELSE outcome(<<[type |-> [name |-> exported[1].name,
                                           properties |-> exported[1].properties,
                                           extends |-> exported[1].extends,
                                           origin |-> root]]>>,
                              <<exported[1].name>>, <<>>)
        ofModule(credentialModule) ==
            IF credentialModule.threw THEN outcome(<<>>, <<>>, credentialModule.error)
            ELSE ofExport(exportOf(credentialModule.value[1], pascalCaseType))
    IN ofModule(tryRequireModule(modules, credentialPath))

\* loadCredentialType that searches the langchain package before
\* n8n-nodes-base.
loadCredentialType_LangchainFirst(modules, loaded, credentialType) ==
    LET afterSecond(first, second) ==
            TypesOutcome(Returned(<<>>),
                         IF second.entry # <<>>
                         THEN (credentialType :> second.entry[1]) @@ loaded
                         ELSE loaded,
                         first.tried \o second.tried,
                         first.constructed \o second.constructed,
                         IF second.entry # <<>> THEN <<>> ELSE second.failed)
        afterFirst(first) ==
            IF first.entry # <<>>
            THEN TypesOutcome(Returned(<<>>),
                              (credentialType :> first.entry[1]) @@ loaded,
                              first.tried, first.constructed, <<>>)
            ELSE afterSecond(first,
                             loadFromNamespace(modules, "n8n-nodes-base",
                                               PascalCase(credentialType)))
    IN afterFirst(loadFromNamespace(modules, "@n8n/n8n-nodes-langchain",
                                    PascalCase(credentialType)))

\* loadCredentialType(credentialType): n8n-nodes-base first, then the
\* langchain package; only the error of the second block is logged.
loadCredentialType(modules, loaded, credentialType) ==
    LET afterSecondary(primary, secondary) ==
            TypesOutcome(Returned(<<>>),
                         IF secondary.entry # <<>>
                         THEN (credentialType :> secondary.entry[1]) @@ loaded
                         ELSE loaded,
                         primary.tried \o secondary.tried,
                         primary.constructed \o secondary.constructed,
                         IF secondary.entry # <<>> THEN <<>> ELSE secondary.failed)
        afterPrimary(primary) ==
            IF primary.entry # <<>>
            THEN TypesOutcome(Returned(<<>>),
                              (credentialType :> primary.entry[1]) @@ loaded,
                              primary.tried, primary.constructed, <<>>)
            ELSE afterSecondary(primary,
                                loadFromNamespace(modules, "@n8n/n8n-nodes-langchain",
                                                  PascalCase(credentialType)))
    IN afterPrimary(loadFromNamespace(modules, "n8n-nodes-base",
                                      PascalCase(credentialType)))

UnknownCredentialType(credentialType) ==
    Thrown("UnexpectedError", Message("Unknown credential type: ", credentialType,
                                      <<>>, <<>>))

\* getByName without its test of loadedCredentials: every call loads anew.
CredentialTypes_getByName_Reloads(modules, loaded, credentialType) ==
    LET did == loadCredentialType(modules, loaded, credentialType)
    IN IF credentialType \notin DOMAIN did.loadedCredentials
       THEN [did EXCEPT !.result = UnknownCredentialType(credentialType)]
       ELSE [did EXCEPT !.result = Returned(did.loadedCredentials[credentialType].type)]

\* getByName(credentialType)
CredentialTypes_getByName(modules, loaded, credentialType) ==
    LET afterLoad(did) ==
            IF credentialType \notin DOMAIN did.loadedCredentials
            THEN [did EXCEPT !.result = UnknownCredentialType(credentialType)]
            ELSE [did EXCEPT
                     !.result = Returned(did.loadedCredentials[credentialType].type)]
    IN afterLoad(IF credentialType \in DOMAIN loaded
                 THEN TypesOutcome(Returned(<<>>), loaded, <<>>, <<>>, <<>>)
                 ELSE loadCredentialType(modules, loaded, credentialType))

(***************************************************************************)
(* CredentialsOverwrites and the policies a helper may be constructed with.*)
(***************************************************************************)
\* An applyOverwrite that removes the OAuth token data.
applyOverwrite_DropsTokenData(type, decryptedData) ==
    [f \in DOMAIN decryptedData \ {"oauthTokenData"} |-> decryptedData[f]]

\* applyOverwrite(type, decryptedData) of CredentialsOverwrites
applyOverwrite(type, decryptedData) == decryptedData

\* The applyOverwrite of the collaborator the helper was constructed with:
\* the class of this package, or a policy that forces or removes values.
OverwritePolicies == {"CredentialsOverwrites", "replacing", "removing"}

policyApplyOverwrite(policy, type, decryptedData) ==
    IF policy = "CredentialsOverwrites" THEN applyOverwrite(type, decryptedData)
    ELSE IF policy = "replacing"
         THEN [f \in DOMAIN decryptedData \cup {"oauthTokenData"} |-> "forced"]
         ELSE [f \in DOMAIN decryptedData \ {"oauthTokenData"} |-> decryptedData[f]]

(***************************************************************************)
(* The collaborators of the helper outside this package: the provider,     *)
(* Credentials of n8n-core, NodeHelpers and Workflow of n8n-workflow.      *)
(***************************************************************************)
\* The encrypted data of a provider's record.
Encrypted(data) == [cipher |-> "aes", payload |-> <<data>>]

\* The decrypted data objects of the stored credentials.
StoredData ==
    {("clientId" :> "id"),
     ("clientId" :> "id") @@ ("oauthTokenData" :> "token123"),
     ("clientId" :> "=upper") @@ ("oauthTokenData" :> ""),
     ("scope" :> "=bad") @@ ("oauthTokenData" :> "token123"),
     ("oauthTokenData" :> "=upper")}

\* The tables of a provider: credential id -> record, whose data is the
\* encryption of a stored data object or of nothing; `rejects` holds what
\* the provider throws when asked for the record (<<>>: it gives the
\* record), here a string, which is not an Error object.
ProviderTables ==
    {<<>>}
    \cup {("123" :> [id |-> "123", name |-> "test", type |-> oAuth2Api, data |-> e,
                     rejects |-> <<>>]) :
             e \in {Encrypted(d) : d \in StoredData}
                   \cup {[cipher |-> "garbled", payload |-> <<>>]}}
    \cup {("123" :> [id |-> "123", name |-> "test", type |-> oAuth2Api,
                     data |-> [cipher |-> "garbled", payload |-> <<>>],
                     rejects |-> <<[name |-> "string",
                                    message |-> Message("provider unavailable", <<>>,
                                                        <<>>, <<>>)]>>])}

\* credentialsProvider.getCredentialData(id, type)
getCredentialData(records, id, type) ==
    IF id \in DOMAIN records
    THEN IF records[id].rejects # <<>>
         THEN [threw |-> TRUE, value |-> <<>>, error |-> records[id].rejects]
         ELSE Returned(records[id])
    ELSE Thrown("Error", Message("Credential not found:  - ", <<id>> \o type, <<>>, <<>>))

\* new Credentials({ id, name }, type, data)
Credentials(credential) ==
    [id |-> credential.id, name |-> credential.name, type |-> credential.type,
     data |-> credential.data]

\* credentials.getData(): the decrypted data, or the error of a failed
\* decryption.
getData(credentials) ==
    IF credentials.data.cipher = "aes" THEN Returned(credentials.data.payload[1])
    ELSE Thrown("ApplicationError",
                Message("Credentials could not be decrypted.", <<>>, <<>>, <<>>))

\* NodeHelpers.mergeNodeProperties(mainProperties, addProperties): a property
\* of addProperties replaces the one of its name, or is pushed.
RECURSIVE mergeNodeProperties(_, _)
mergeNodeProperties(mainProperties, addProperties) ==
    IF addProperties = <<>> THEN mainProperties
    ELSE LET property == Head(addProperties)
             at == {i \in 1..Len(mainProperties) : mainProperties[i].name = property.name}
             merged == IF property.doNotInherit THEN mainProperties
                       ELSE IF at = {} THEN Append(mainProperties, property)
                       ELSE [mainProperties EXCEPT
                                ![CHOOSE i \in at : \A j \in at : i <= j] = property]
         IN mergeNodeProperties(merged, Tail(addProperties))

\* NodeHelpers.getNodeParameters(properties, data, true, false, null, null):
\* the value of every declared property, its default where the data has
\* none; what is not declared is left out.
getNodeParameters(properties, nodeValues) ==
    IF \E i \in 1..Len(properties) : properties[i].unresolvable
    THEN Thrown("ApplicationError",
                Message("Could not resolve parameter dependencies.", <<>>, <<>>, <<>>))
    ELSE Returned([name \in {properties[i].name : i \in 1..Len(properties)} |->
                      IF name \in DOMAIN nodeValues THEN nodeValues[name]
                      ELSE LET first == CHOOSE i \in 1..Len(properties) :
                                            /\ properties[i].name = name
                                            /\ \A j \in 1..(i - 1) :
                                                   properties[j].name # name
                           IN properties[first].default])

\* The value of one parameter after expression resolution: a value that
\* starts with '=' is evaluated.
resolvedValue(value) == IF value = "=upper" THEN "UPPER" ELSE value

\* workflow.expression.getComplexParameterValue(mockNode, data, mode, {},
\* undefined, undefined, data)
getComplexParameterValue(parameterValue) ==
    IF \E f \in DOMAIN parameterValue : parameterValue[f] = "=bad"
    THEN Thrown("ExpressionError", Message("invalid syntax", <<>>, <<>>, <<>>))
    ELSE Returned([f \in DOMAIN parameterValue |-> resolvedValue(parameterValue[f])])

(***************************************************************************)
(* CredentialsHelper                                                       *)
(***************************************************************************)
\* A credential reference of a node: { id, name } (id <<>>: none).
NodeCredential(id) == [id |-> id, name |-> "test"]

MissingId ==
    Thrown("UnexpectedError", Message("Found credential with no ID.", <<>>, <<>>, <<>>))

\* What a call on the helper did: its outcome, the loadedCredentials of the
\* registry after it, the collaborators' operations it invoked in order, the
\* arguments of its provider calls, the data credentials.getData gave and the
\* data it handed to expression resolution (each <<>> when there was none).
HelperOutcome(result, loaded, steps, providerCalls, decrypted, resolveInput) ==
    [result |-> result, loadedCredentials |-> loaded, steps |-> steps,
     providerCalls |-> providerCalls, decrypted |-> decrypted,
     resolveInput |-> resolveInput]

\* getCredentials that asks the provider before it looks at the id.
getCredentials_AsksProviderFirst(records, loaded, nodeCredential, type) ==
    LET id == IF nodeCredential.id = <<>> THEN "" ELSE nodeCredential.id[1]
        ofRecord(credential) ==
            HelperOutcome(IF id = "" THEN MissingId
                          ELSE IF credential.threw THEN credential
                          ELSE Returned(Credentials(credential.value[1])),
                          loaded, <<"getCredentialData">>,
                          <<[id |-> id, type |-> type]>>, <<>>, <<>>)
    IN ofRecord(getCredentialData(records, id, type))

\* getCredentials that asks the provider a second time when the first
\* request failed.
getCredentials_RetriesOnFailure(records, loaded, nodeCredential, type) ==
    LET call == [id |-> nodeCredential.id[1], type |-> type]
        ofRecord(credential) ==
            HelperOutcome(IF credential.threw THEN credential
                          ELSE Returned(Credentials(credential.value[1])),
                          loaded,
                          IF credential.threw
                          THEN <<"getCredentialData", "getCredentialData">>
                          ELSE <<"getCredentialData">>,
                          IF credential.threw THEN <<call, call>> ELSE <<call>>,
                          <<>>, <<>>)
    IN IF nodeCredential.id = <<>> \/ nodeCredential.id = <<"">>
       THEN HelperOutcome(MissingId, loaded, <<>>, <<>>, <<>>, <<>>)
       ELSE ofRecord(getCredentialData(records, nodeCredential.id[1], type))

\* getCredentials(nodeCredential, type)
getCredentials(records, loaded, nodeCredential, type) ==
    LET ofRecord(credential) ==
            HelperOutcome(IF credential.threw THEN credential
                          ELSE Returned(Credentials(credential.value[1])),
                          loaded, <<"getCredentialData">>,
                          <<[id |-> nodeCredential.id[1], type |-> type]>>, <<>>, <<>>)
    IN IF nodeCredential.id = <<>> \/ nodeCredential.id = <<"">>
       THEN HelperOutcome(MissingId, loaded, <<>>, <<>>, <<>>, <<>>)
       ELSE ofRecord(getCredentialData(records, nodeCredential.id[1], type))

RECURSIVE getCredentialsPropertiesAt(_, _, _, _)
RECURSIVE combineParents(_, _, _, _, _, _)

\* The for loop of getCredentialsProperties from the i-th parent on: the
\* properties of each parent are merged into combineProperties; a throw of
\* a nested call ends it.
combineParents(modules, loaded, extends, i, combineProperties, depth) ==
    LET next(nested) ==
            IF nested.result.threw THEN nested
            ELSE combineParents(modules, nested.loadedCredentials, extends, i + 1,
                                mergeNodeProperties(combineProperties,
                                                    nested.result.value[1]),
                                depth)
    IN IF i > Len(extends)
       THEN [result |-> Returned(combineProperties), loadedCredentials |-> loaded]
       ELSE next(getCredentialsPropertiesAt(modules, loaded, extends[i], depth + 1))

\* getCredentialsProperties with the precedence of the comment at its last
\* merge: the parents' properties are merged over the type's own.
getCredentialsPropertiesAt_ParentsWin(modules, loaded, type, depth) ==
    LET mergeOwn(properties, combined) ==
            IF combined.result.threw THEN combined
            ELSE [combined EXCEPT
                     !.result = Returned(mergeNodeProperties(properties,
                                                             combined.result.value[1]))]
        ofType(got) ==
            IF got.result.threw
            THEN [result |-> got.result, loadedCredentials |-> got.loadedCredentials]
            ELSE IF got.result.value[1].extends = <<>>
                 THEN [result |->
                           Returned(IF type \in {oAuth1Api, oAuth2Api}
                                    THEN Append(got.result.value[1].properties,
                                                OauthTokenDataProperty)
                                    ELSE got.result.value[1].properties),
                       loadedCredentials |-> got.loadedCredentials]
                 ELSE mergeOwn(got.result.value[1].properties,
                               combineParents(modules, got.loadedCredentials,
                                              got.result.value[1].extends[1], 1, <<>>,
                                              depth))
    IN IF depth > MaxStack
       THEN [result |-> StackOverflow, loadedCredentials |-> loaded]
       ELSE ofType(CredentialTypes_getByName(modules, loaded, type))

\* getCredentialsProperties(type) called at call depth `depth`: its outcome
\* and the loadedCredentials it leaves.
getCredentialsPropertiesAt(modules, loaded, type, depth) ==
    LET mergeOwn(properties, combined) ==
            IF combined.result.threw THEN combined
            ELSE [combined EXCEPT
                     !.result = Returned(mergeNodeProperties(combined.result.value[1],
                                                             properties))]
        ofType(got) ==
            IF got.result.threw
            THEN [result |-> got.result, loadedCredentials |-> got.loadedCredentials]
            ELSE IF got.result.value[1].extends = <<>>
                 THEN [result |->
                           Returned(IF type \in {oAuth1Api, oAuth2Api}
                                    THEN Append(got.result.value[1].properties,
                                                OauthTokenDataProperty)
                                    ELSE got.result.value[1].properties),
                       loadedCredentials |-> got.loadedCredentials]
                 ELSE mergeOwn(got.result.value[1].properties,
                               combineParents(modules, got.loadedCredentials,
                                              got.result.value[1].extends[1], 1, <<>>,
                                              depth))
    IN IF depth > MaxStack
       THEN [result |-> StackOverflow, loadedCredentials |-> loaded]
       ELSE ofType(CredentialTypes_getByName(modules, loaded, type))

\* getCredentialsProperties without the special OAuth parameter: the OAuth
\* base types get their declared properties only.
getCredentialsProperties_NoOauthField(modules, loaded, type) ==
    LET plain(did) ==
            IF /\ ~did.result.threw
               /\ type \in {oAuth1Api, oAuth2Api}
               /\ did.loadedCredentials[type].type.extends = <<>>
            THEN [did EXCEPT !.result = Returned(did.loadedCredentials[type].type.properties)]
            ELSE did
    IN plain(getCredentialsPropertiesAt(modules, loaded, type, 1))

\* getCredentialsProperties that gives an empty schema where the recursion
\* exhausted the stack.
getCredentialsProperties_TruncatesAtLimit(modules, loaded, type) ==
    LET truncated(did) ==
            IF did.result = StackOverflow THEN [did EXCEPT !.result = Returned(<<>>)]
            ELSE did
    IN truncated(getCredentialsPropertiesAt(modules, loaded, type, 1))

getCredentialsProperties(modules, loaded, type) ==
    getCredentialsPropertiesAt(modules, loaded, type, 1)

\* The defaulted data as default filling left it: nothing is put back.
restoreOauthTokenData_Skipped(decryptedDataOriginal, decryptedData) == decryptedData

\* if (decryptedDataOriginal.oauthTokenData !== undefined)
\*     decryptedData.oauthTokenData = decryptedDataOriginal.oauthTokenData
restoreOauthTokenData(decryptedDataOriginal, decryptedData) ==
    IF "oauthTokenData" \in DOMAIN decryptedDataOriginal
    THEN ("oauthTokenData" :> decryptedDataOriginal["oauthTokenData"]) @@ decryptedData
    ELSE decryptedData

\* applyDefaultsAndOverwrites whose default filling is given the original
\* decrypted data in place of what applyOverwrite returned.
applyDefaultsAndOverwrites_FillsOriginal(modules, loaded, policy, decryptedDataOriginal, type) ==
    LET resolve(loadedNow, decryptedData) ==
            HelperOutcome(getComplexParameterValue(decryptedData), loadedNow,
                          <<"getCredentialsProperties", "applyOverwrite",
                            "getNodeParameters", "getComplexParameterValue">>,
                          <<>>, <<>>, <<decryptedData>>)
        afterDefaults(loadedNow, decryptedData) ==
            IF decryptedData.threw
            THEN HelperOutcome(decryptedData, loadedNow,
                               <<"getCredentialsProperties", "applyOverwrite",
                                 "getNodeParameters">>, <<>>, <<>>, <<>>)
            ELSE resolve(loadedNow, restoreOauthTokenData(decryptedDataOriginal,
                                                          decryptedData.value[1]))
        afterSchema(credentialsProperties) ==
            IF credentialsProperties.result.threw
            THEN HelperOutcome(credentialsProperties.result,
                               credentialsProperties.loadedCredentials,
                               <<"getCredentialsProperties">>, <<>>, <<>>, <<>>)
            ELSE afterDefaults(credentialsProperties.loadedCredentials,
                               getNodeParameters(credentialsProperties.result.value[1],
                                                 decryptedDataOriginal))
    IN afterSchema(getCredentialsProperties(modules, loaded, type))

\* applyDefaultsAndOverwrites that puts back the oauthTokenData of what
\* applyOverwrite returned in place of that of the original decrypted data.
applyDefaultsAndOverwrites_RestoresOverwritten(modules, loaded, policy, decryptedDataOriginal, type) ==
    LET resolve(loadedNow, decryptedData) ==
            HelperOutcome(getComplexParameterValue(decryptedData), loadedNow,
                          <<"getCredentialsProperties", "applyOverwrite",
                            "getNodeParameters", "getComplexParameterValue">>,
                          <<>>, <<>>, <<decryptedData>>)
        afterDefaults(loadedNow, decryptedData) ==
            IF decryptedData.threw
            THEN HelperOutcome(decryptedData, loadedNow,
                               <<"getCredentialsProperties", "applyOverwrite",
                                 "getNodeParameters">>, <<>>, <<>>, <<>>)
            ELSE resolve(loadedNow,
                         restoreOauthTokenData(policyApplyOverwrite(policy, type,
                                                                    decryptedDataOriginal),
                                               decryptedData.value[1]))
        afterSchema(credentialsProperties) ==
            IF credentialsProperties.result.threw
            THEN HelperOutcome(credentialsProperties.result,
                               credentialsProperties.loadedCredentials,
                               <<"getCredentialsProperties">>, <<>>, <<>>, <<>>)
            ELSE afterDefaults(credentialsProperties.loadedCredentials,
                               getNodeParameters(credentialsProperties.result.value[1],
                                                 policyApplyOverwrite(policy, type,
                                                     decryptedDataOriginal)))
    IN afterSchema(getCredentialsProperties(modules, loaded, type))

\* applyDefaultsAndOverwrites(additionalData, decryptedDataOriginal, type, mode)
applyDefaultsAndOverwrites(modules, loaded, policy, decryptedDataOriginal, type) ==
    LET resolve(loadedNow, decryptedData) ==
            HelperOutcome(getComplexParameterValue(decryptedData), loadedNow,
                          <<"getCredentialsProperties", "applyOverwrite",
                            "getNodeParameters", "getComplexParameterValue">>,
                          <<>>, <<>>, <<decryptedData>>)
        afterDefaults(loadedNow, decryptedData) ==
            IF decryptedData.threw
            THEN HelperOutcome(decryptedData, loadedNow,
                               <<"getCredentialsProperties", "applyOverwrite",
                                 "getNodeParameters">>, <<>>, <<>>, <<>>)
            ELSE resolve(loadedNow, restoreOauthTokenData(decryptedDataOriginal,
                                                          decryptedData.value[1]))
        afterSchema(credentialsProperties) ==
            IF credentialsProperties.result.threw
            THEN HelperOutcome(credentialsProperties.result,
                               credentialsProperties.loadedCredentials,
                               <<"getCredentialsProperties">>, <<>>, <<>>, <<>>)
            ELSE afterDefaults(credentialsProperties.loadedCredentials,
                               getNodeParameters(credentialsProperties.result.value[1],
                                                 policyApplyOverwrite(policy, type,
                                                     decryptedDataOriginal)))
    IN afterSchema(getCredentialsProperties(modules, loaded, type))

\* getDecrypted after its first await without its test of `raw`.
decryptAfterAwait_IgnoresRaw(modules, loaded, policy, credentials, type, raw) ==
    LET afterApply(decryptedDataOriginal, applied) ==
            [applied EXCEPT !.steps = <<"getData">> \o applied.steps,
                            !.decrypted = <<decryptedDataOriginal>>]
        afterGetData(decryptedDataOriginal) ==
            IF decryptedDataOriginal.threw
            THEN HelperOutcome(decryptedDataOriginal, loaded, <<"getData">>, <<>>, <<>>,
                               <<>>)
            ELSE afterApply(decryptedDataOriginal.value[1],
                            applyDefaultsAndOverwrites(modules, loaded, policy,
                                                       decryptedDataOriginal.value[1],
                                                       type))
    IN afterGetData(getData(credentials))

\* getDecrypted(additionalData, nodeCredentials, type, mode, executeData, raw)
\* from the end of its `await this.getCredentials(...)` to its return or its
\* second await; raw is <<>> when the argument is omitted.
decryptAfterAwait(modules, loaded, policy, credentials, type, raw) ==
    LET afterApply(decryptedDataOriginal, applied) ==
            [applied EXCEPT !.steps = <<"getData">> \o applied.steps,
                            !.decrypted = <<decryptedDataOriginal>>]
        afterGetData(decryptedDataOriginal) ==
            IF decryptedDataOriginal.threw
            THEN HelperOutcome(decryptedDataOriginal, loaded, <<"getData">>, <<>>, <<>>,
                               <<>>)
            ELSE IF raw = <<TRUE>>
                 THEN HelperOutcome(Returned(decryptedDataOriginal.value[1]), loaded,
                                    <<"getData">>, <<>>,
                                    <<decryptedDataOriginal.value[1]>>, <<>>)
                 ELSE afterApply(decryptedDataOriginal.value[1],
                                 applyDefaultsAndOverwrites(modules, loaded, policy,
                                     decryptedDataOriginal.value[1], type))
    IN afterGetData(getData(credentials))

(***************************************************************************)
(* The state.                                                              *)
(***************************************************************************)
VARIABLES
    knownCredentials,   \* CredentialTypes.knownCredentials
    ctLast,             \* the last CredentialTypes call and what it gave back
    loadedCredentials,  \* CredentialTypes.loadedCredentials: type -> { type }
    credentialModules,  \* the credential modules the environment holds now
    providerRecords,    \* the table of the helper's credentials provider
    overwritePolicy,    \* the overwrite policy the helper was constructed with
    chLast,             \* the last plain CredentialsHelper call and its outcome
    decrypting,         \* the getDecrypted calls, by caller
    ntStatus,           \* "none": no registry yet; "ready": constructed;
                        \* "failed": the NodeTypes constructor threw
    ntArgument,         \* what the NodeTypes constructor was handed
    customPaths,        \* NodeTypes.customPaths
    loadedNodes,        \* NodeTypes.loadedNodes: identifier -> instance
    created,            \* how many node instances the registry has created
    installed,          \* the optional modules the environment holds now
    ntLast,             \* the last NodeTypes call a client made and its outcome
    tasks,              \* the loadNodesFromWorkflow calls, by caller
    runners,            \* the Runner instances: their fields and execute call
    container,          \* the services registered in the DI Container
    rnLast              \* the last init or shutdown call and its outcome

ctVars == <<knownCredentials, ctLast, loadedCredentials, credentialModules>>

chVars == <<providerRecords, overwritePolicy, chLast, decrypting>>

ntVars == <<ntStatus, ntArgument, customPaths, loadedNodes, created, installed, ntLast,
            tasks>>

vars == <<knownCredentials, ctLast, loadedCredentials, credentialModules,
          providerRecords, overwritePolicy, chLast, decrypting, ntStatus, ntArgument,
          customPaths, loadedNodes, created, installed, ntLast, tasks, runners,
          container, rnLast>>

rnVars == <<runners, container, rnLast>>

NoCall ==
    [op |-> "none", arg |-> <<>>, result |-> Returned(<<>>), tried |-> <<>>,
     constructed |-> <<>>, logged |-> <<>>]

NodeCall(op, arg, version, wasLoaded, result, tried, constructed) ==
    [op |-> op, arg |-> arg, version |-> version, wasLoaded |-> wasLoaded,
     result |-> result, tried |-> tried, constructed |-> constructed]

NoNodeCall == NodeCall("none", <<>>, <<>>, FALSE, Returned(<<>>), <<>>, <<>>)

\* A caller's loadNodesFromWorkflow call: the types of the nodes it was
\* given, the unique types it iterates over, the index of the next one, the
\* loadNodeType calls it made, the outcome of the one it awaits and, once
\* its own promise is settled ("resolved", "rejected"), what that gave.
IdleTask ==
    [state |-> "idle", types |-> <<>>, uniqueTypes |-> <<>>, next |-> 1,
     calls |-> <<>>, awaited |-> Returned(<<>>), settled |-> Returned(<<>>)]

Callers == {"caller1"}

\* A plain call on the helper or on its overwrites and what it did; `data`
\* holds the data object the call was given (<<>>: it takes none).
HelperCall(op, nodeCredential, type, did) ==
    [op |-> op, ref |-> nodeCredential, type |-> type, result |-> did.result,
     steps |-> did.steps, providerCalls |-> did.providerCalls,
     data |-> did.decrypted]

NoHelperCall ==
    HelperCall("none", NodeCredential(<<>>), <<>>,
               HelperOutcome(Returned(<<>>), <<>>, <<>>, <<>>, <<>>, <<>>))

\* A caller's getDecrypted call: its arguments, the outcome of the promise
\* it awaits, the collaborators' operations it has invoked, its provider
\* calls, the data decryption gave, the data handed to expression resolution
\* and, once its own promise is settled ("resolved", "rejected"), what that
\* gave.
IdleDecrypt ==
    [state |-> "idle", ref |-> NodeCredential(<<>>), type |-> <<>>, raw |-> <<>>,
     awaited |-> Returned(<<>>), steps |-> <<>>, providerCalls |-> <<>>,
     decrypted |-> <<>>, resolveInput |-> <<>>, settled |-> Returned(<<>>)]

CTInit ==
    /\ knownCredentials = <<>>
    /\ ctLast = NoCall
    /\ loadedCredentials = <<>>
    /\ credentialModules = StandardCredentialModules

CHInit ==
    /\ providerRecords = <<>>
    /\ overwritePolicy = "CredentialsOverwrites"
    /\ chLast = NoHelperCall
    /\ decrypting = [c \in Callers |-> IdleDecrypt]

\* Runners after `new Runner()`, each with no execute call yet, and the
\* Container before any registration; `provider` notes the provider the
\* completed init of a runner was given.
RunnerIds == {"runnerA", "runnerB"}

RNInit ==
    /\ runners = [r \in RunnerIds |->
                      [initialized |-> FALSE, logger |-> <<>>, nodeTypes |-> <<>>,
                       provider |-> <<>>,
                       execution |-> [state |-> "idle", nodes |-> <<>>, steps |-> <<>>,
                                      awaited |-> Returned(<<>>), helper |-> <<>>, run |-> <<>>,
                                      settled |-> Returned(<<>>)]]]
    /\ container = [credentialTypes |-> <<>>, credentialsOverwrites |-> <<>>,
                    credentialsHelper |-> <<>>]
    /\ rnLast = [op |-> "none", runner |-> "", credentialsProvider |-> "",
                 customclasses |-> NoArgument, result |-> Returned(<<>>), sets |-> <<>>]

NTInit ==
    /\ ntStatus = "none"
    /\ ntArgument = NoArgument
    /\ customPaths = <<>>
    /\ loadedNodes = <<>>
    /\ created = 0
    /\ installed = {}
    /\ ntLast = NoNodeCall
    /\ tasks = [c \in Callers |-> IdleTask]

(***************************************************************************)
(* The operations of CredentialTypes.                                      *)
(***************************************************************************)
GetParentTypes(typeName) ==
    /\ ctLast' = [op |-> "getParentTypes", arg |-> typeName,
                  result |-> getParentTypes(knownCredentials, typeName),
                  tried |-> <<>>, constructed |-> <<>>, logged |-> <<>>]
    /\ UNCHANGED <<knownCredentials, loadedCredentials, credentialModules, ntVars,
                   chVars, rnVars>>

Recognizes(type) ==
    /\ ctLast' = [op |-> "recognizes", arg |-> type,
                  result |-> Returned(recognizes(knownCredentials, loadedCredentials, type)),
                  tried |-> <<>>, constructed |-> <<>>, logged |-> <<>>]
    /\ UNCHANGED <<knownCredentials, loadedCredentials, credentialModules, ntVars,
                   chVars, rnVars>>

GetSupportedNodes(type) ==
    /\ ctLast' = [op |-> "getSupportedNodes", arg |-> type,
                  result |-> Returned(getSupportedNodes(knownCredentials, type)),
                  tried |-> <<>>, constructed |-> <<>>, logged |-> <<>>]
    /\ UNCHANGED <<knownCredentials, loadedCredentials, credentialModules, ntVars,
                   chVars, rnVars>>

(***************************************************************************)
(* The operations of NodeTypes.                                            *)
(***************************************************************************)
\* new NodeTypes(customNodePackages)
NewNodeTypes(customNodePackages) ==
    /\ ntStatus = "none"
    /\ LET built == NodeTypesConstructor(customNodePackages)
       IN /\ ntStatus' = IF built.threw THEN "failed" ELSE "ready"
          /\ customPaths' = IF built.threw THEN <<>> ELSE built.value[1]
          /\ ntLast' = NodeCall("constructor", <<>>, <<>>, FALSE,
                                IF built.threw THEN built ELSE Returned(<<>>), <<>>, <<>>)
    /\ ntArgument' = customNodePackages
    /\ UNCHANGED <<loadedNodes, created, installed, tasks, ctVars, chVars, rnVars>>

\* await nodeTypes.loadNodeType(nodeTypeName): the body has no await, it
\* runs in one piece.
LoadNodeType(nodeTypeName) ==
    /\ ntStatus = "ready"
    /\ LET did == loadNodeType(installed, customPaths, loadedNodes, created, nodeTypeName)
       IN /\ loadedNodes' = did.loadedNodes
          /\ created' = did.created
          /\ ntLast' = NodeCall("loadNodeType", nodeTypeName, <<>>,
                                nodeTypeName \in DOMAIN loadedNodes,
                                did.result, did.tried, did.constructed)
    /\ UNCHANGED <<ntStatus, ntArgument, customPaths, installed, tasks, ctVars, chVars, rnVars>>

\* The longest candidate list of a direct tryLoadModule call.
MaxPaths == 3

\* NodeTypes.tryLoadModule(possiblePaths), the static method called directly.
TryLoadModule(possiblePaths) ==
    /\ LET did == tryLoadModule(installed, possiblePaths)
       IN ntLast' = NodeCall("tryLoadModule", possiblePaths, <<>>, FALSE, did.result,
                             did.tried, <<>>)
    /\ UNCHANGED <<ntStatus, ntArgument, customPaths, loadedNodes, created, installed,
                   tasks, ctVars, chVars, rnVars>>

GetByName(nodeType) ==
    /\ ntStatus = "ready"
    /\ ntLast' = NodeCall("getByName", nodeType, <<>>, nodeType \in DOMAIN loadedNodes,
                          NodeTypes_getByName(loadedNodes, nodeType), <<>>, <<>>)
    /\ UNCHANGED <<ntStatus, ntArgument, customPaths, loadedNodes, created, installed,
                   tasks, ctVars, chVars, rnVars>>

\* The versions getByNameAndVersion is called with (<<>>: omitted).
Versions == {<<>>, <<1>>, <<2>>}

GetByNameAndVersion(nodeType, version) ==
    /\ ntStatus = "ready"
    /\ ntLast' = NodeCall("getByNameAndVersion", nodeType, version,
                          nodeType \in DOMAIN loadedNodes,
                          getByNameAndVersion(loadedNodes, nodeType, version), <<>>, <<>>)
    /\ UNCHANGED <<ntStatus, ntArgument, customPaths, loadedNodes, created, installed,
                   tasks, ctVars, chVars, rnVars>>

GetKnownTypes ==
    /\ ntStatus = "ready"
    /\ ntLast' = NodeCall("getKnownTypes", <<>>, <<>>, FALSE,
                          Returned(getKnownTypes(loadedNodes)), <<>>, <<>>)
    /\ UNCHANGED <<ntStatus, ntArgument, customPaths, loadedNodes, created, installed,
                   tasks, ctVars, chVars, rnVars>>

\* The environment: a module is installed where require finds it.
InstallModule(path) ==
    /\ path \notin installed
    /\ installed' = installed \cup {path}
    /\ UNCHANGED <<ntStatus, ntArgument, customPaths, loadedNodes, created, ntLast,
                   tasks, ctVars, chVars, rnVars>>

\* The longest node list of a workflow.
MaxNodes == 3

\* The node types the nodes of a workflow have.
WorkflowTypes == {idSet, idAgent, idMissing}

\* loadNodesFromWorkflow(nodes), called by `caller`, up to its first await:
\* the Set is built and, unless it is empty, loadNodeType is called for its
\* first type; the call then waits for that promise.
StartLoadNodesFromWorkflow(caller, types) ==
    /\ ntStatus = "ready"
    /\ tasks[caller].state # "suspended"
    /\ LET uniqueTypes == uniqueTypesOf(types)
       IN IF uniqueTypes = <<>>
          THEN /\ tasks' = [tasks EXCEPT ![caller] =
                               [IdleTask EXCEPT !.state = "resolved", !.types = types]]
               /\ UNCHANGED <<loadedNodes, created>>
          ELSE LET did == loadNodeType(installed, customPaths, loadedNodes, created,
                                       uniqueTypes[1])
               IN /\ loadedNodes' = did.loadedNodes
                  /\ created' = did.created
                  /\ tasks' = [tasks EXCEPT ![caller] =
                                  [state |-> "suspended", types |-> types,
                                   uniqueTypes |-> uniqueTypes, next |-> 2,
                                   calls |-> <<uniqueTypes[1]>>,
                                   awaited |-> did.result,
                                   settled |-> Returned(<<>>)]]
    /\ UNCHANGED <<ntStatus, ntArgument, customPaths, installed, ntLast, ctVars, chVars, rnVars>>

\* The call going on after its await as if every loadNodeType promise were
\* fulfilled: a failure is dropped and the loop goes on.
Resume_IgnoresFailure(caller) ==
    /\ tasks[caller].state = "suspended"
    /\ LET task == tasks[caller]
       IN IF task.next > Len(task.uniqueTypes)
          THEN /\ tasks' = [tasks EXCEPT ![caller].state = "resolved"]
               /\ UNCHANGED <<loadedNodes, created>>
          ELSE LET did == loadNodeType(installed, customPaths, loadedNodes, created,
                                       task.uniqueTypes[task.next])
               IN /\ loadedNodes' = did.loadedNodes
                  /\ created' = did.created
                  /\ tasks' = [tasks EXCEPT
                                  ![caller].next = task.next + 1,
                                  ![caller].calls =
                                      Append(task.calls, task.uniqueTypes[task.next]),
                                  ![caller].awaited = did.result]
    /\ UNCHANGED <<ntStatus, ntArgument, customPaths, installed, ntLast, ctVars, chVars, rnVars>>

\* The call goes on after its await: a rejected loadNodeType promise makes
\* it throw, which rejects its own promise; otherwise the loop goes to the
\* next type, or ends.
ResumeLoadNodesFromWorkflow(caller) ==
    /\ tasks[caller].state = "suspended"
    /\ LET task == tasks[caller]
       IN IF task.awaited.threw
          THEN /\ tasks' = [tasks EXCEPT ![caller].state = "rejected",
                                          ![caller].settled = task.awaited]
               /\ UNCHANGED <<loadedNodes, created>>
          ELSE IF task.next > Len(task.uniqueTypes)
               THEN /\ tasks' = [tasks EXCEPT ![caller].state = "resolved"]
                    /\ UNCHANGED <<loadedNodes, created>>
               ELSE LET did == loadNodeType(installed, customPaths, loadedNodes, created,
                                            task.uniqueTypes[task.next])
                    IN /\ loadedNodes' = did.loadedNodes
                       /\ created' = did.created
                       /\ tasks' = [tasks EXCEPT
                                       ![caller].next = task.next + 1,
                                       ![caller].calls =
                                           Append(task.calls, task.uniqueTypes[task.next]),
                                       ![caller].awaited = did.result]
    /\ UNCHANGED <<ntStatus, ntArgument, customPaths, installed, ntLast, ctVars, chVars, rnVars>>

(***************************************************************************)
(* The operations of the credential registry behind the helper.            *)
(***************************************************************************)
\* A getByName that enters the descriptor it materialised into the
\* known-type index, with the parents the descriptor declares.
CredentialGetByName_IndexesDescriptor(credentialType) ==
    /\ \E did \in {CredentialTypes_getByName(credentialModules, loadedCredentials,
                                             credentialType)} :
           /\ loadedCredentials' = did.loadedCredentials
           /\ knownCredentials' =
                  IF did.result.threw THEN knownCredentials
                  ELSE (credentialType :>
                            [hasExtends |-> did.result.value[1].extends # <<>>,
                             extends |-> IF did.result.value[1].extends = <<>> THEN <<>>
                                         ELSE did.result.value[1].extends[1]])
                       @@ knownCredentials
           /\ ctLast' = [op |-> "getByName", arg |-> credentialType,
                         result |-> did.result, tried |-> did.tried,
                         constructed |-> did.constructed, logged |-> did.logged]
    /\ UNCHANGED <<credentialModules, ntVars, chVars, rnVars>>

CredentialGetByName(credentialType) ==
    /\ \E did \in {CredentialTypes_getByName(credentialModules, loadedCredentials,
                                             credentialType)} :
           /\ loadedCredentials' = did.loadedCredentials
           /\ ctLast' = [op |-> "getByName", arg |-> credentialType,
                         result |-> did.result, tried |-> did.tried,
                         constructed |-> did.constructed, logged |-> did.logged]
    /\ UNCHANGED <<knownCredentials, credentialModules, ntVars, chVars, rnVars>>

\* The environment: a credential module is installed where require finds it.
InstallCredentialModule(path) ==
    /\ path \notin credentialModules
    /\ credentialModules' = credentialModules \cup {path}
    /\ UNCHANGED <<knownCredentials, ctLast, loadedCredentials, ntVars, chVars, rnVars>>

(***************************************************************************)
(* The operations of CredentialsHelper.                                    *)
(***************************************************************************)
\* The credential references of the calls (<<>>: the id is absent).
NodeCredentials == {NodeCredential(id) : id \in {<<>>, <<"">>, <<"123">>, <<"456">>}}

\* await credentialsHelper.getCredentials(nodeCredential, type): the body
\* has no await, it runs in one piece.
GetCredentials(nodeCredential, type) ==
    /\ LET did == getCredentials(providerRecords, loadedCredentials, nodeCredential, type)
       IN chLast' = HelperCall("getCredentials", nodeCredential, type, did)
    /\ UNCHANGED <<providerRecords, overwritePolicy, decrypting, ctVars, ntVars, rnVars>>

\* credentialsHelper.getCredentialsProperties(type)
GetCredentialsProperties(type) ==
    /\ \E did \in {getCredentialsProperties(credentialModules, loadedCredentials, type)} :
           /\ loadedCredentials' = did.loadedCredentials
           /\ chLast' = HelperCall("getCredentialsProperties", NodeCredential(<<>>), type,
                                   HelperOutcome(did.result, did.loadedCredentials,
                                                 <<>>, <<>>, <<>>, <<>>))
    /\ UNCHANGED <<providerRecords, overwritePolicy, decrypting, knownCredentials,
                   ctLast, credentialModules, ntVars, rnVars>>

\* new CredentialsOverwrites().applyOverwrite(type, decryptedData)
ApplyOverwrite(type, decryptedData) ==
    /\ chLast' = HelperCall("applyOverwrite", NodeCredential(<<>>), type,
                            HelperOutcome(Returned(applyOverwrite(type, decryptedData)),
                                          loadedCredentials, <<>>, <<>>,
                                          <<decryptedData>>, <<>>))
    /\ UNCHANGED <<providerRecords, overwritePolicy, decrypting, ctVars, ntVars, rnVars>>

\* getDecrypted(additionalData, nodeCredentials, type, mode, undefined, raw),
\* called by `caller`, up to its first await: getCredentials runs and the
\* call waits for its promise.
StartGetDecrypted(caller, nodeCredentials, type, raw) ==
    /\ decrypting[caller].state \notin {"suspended", "finishing"}
    /\ LET did == getCredentials(providerRecords, loadedCredentials, nodeCredentials,
                                 type)
       IN decrypting' = [decrypting EXCEPT ![caller] =
                            [state |-> "suspended", ref |-> nodeCredentials,
                             type |-> type, raw |-> raw, awaited |-> did.result,
                             steps |-> did.steps, providerCalls |-> did.providerCalls,
                             decrypted |-> <<>>, resolveInput |-> <<>>,
                             settled |-> Returned(<<>>)]]
    /\ UNCHANGED <<providerRecords, overwritePolicy, chLast, ctVars, ntVars, rnVars>>

\* The call goes on after its first await: a rejected getCredentials promise
\* rejects it; otherwise the data is decrypted and either returned (raw, or
\* a failed decryption) or handed to applyDefaultsAndOverwrites, whose
\* promise the call then waits for.
ResumeGetDecrypted(caller) ==
    /\ decrypting[caller].state = "suspended"
    /\ LET task == decrypting[caller]
       IN IF task.awaited.threw
          THEN /\ decrypting' = [decrypting EXCEPT ![caller].state = "rejected",
                                                    ![caller].settled = task.awaited]
               /\ UNCHANGED loadedCredentials
          ELSE \E did \in {decryptAfterAwait(credentialModules, loadedCredentials,
                                             overwritePolicy, task.awaited.value[1],
                                             task.type, task.raw)} :
                   LET applied == "getCredentialsProperties" \in Range(did.steps)
                   IN /\ loadedCredentials' = did.loadedCredentials
                      /\ decrypting' = [decrypting EXCEPT ![caller] =
                             [task EXCEPT
                                 !.state = IF applied THEN "finishing"
                                           ELSE IF did.result.threw THEN "rejected"
                                           ELSE "resolved",
                                 !.awaited = did.result,
                                 !.steps = task.steps \o did.steps,
                                 !.decrypted = did.decrypted,
                                 !.resolveInput = did.resolveInput,
                                 !.settled = IF applied THEN task.settled
                                             ELSE did.result]]
    /\ UNCHANGED <<providerRecords, overwritePolicy, chLast, knownCredentials, ctLast,
                   credentialModules, ntVars, rnVars>>

\* A getDecrypted that throws a new Error with the message of what
\* applyDefaultsAndOverwrites was rejected with.
FinishGetDecrypted_WrapsRejection(caller) ==
    /\ decrypting[caller].state = "finishing"
    /\ decrypting' = [decrypting EXCEPT
                         ![caller].state = IF decrypting[caller].awaited.threw
                                           THEN "rejected" ELSE "resolved",
                         ![caller].settled =
                             IF decrypting[caller].awaited.threw
                             THEN Thrown("Error",
                                         decrypting[caller].awaited.error[1].message)
                             ELSE decrypting[caller].awaited]
    /\ UNCHANGED <<providerRecords, overwritePolicy, chLast, ctVars, ntVars, rnVars>>

\* The call goes on after `await this.applyDefaultsAndOverwrites(...)`: it
\* returns what that promise gave, or throws what it was rejected with.
FinishGetDecrypted(caller) ==
    /\ decrypting[caller].state = "finishing"
    /\ decrypting' = [decrypting EXCEPT
                         ![caller].state = IF decrypting[caller].awaited.threw
                                           THEN "rejected" ELSE "resolved",
                         ![caller].settled = decrypting[caller].awaited]
    /\ UNCHANGED <<providerRecords, overwritePolicy, chLast, ctVars, ntVars, rnVars>>

(***************************************************************************)
(* Runner (runner.ts) and createAdditionalData (additional-data.ts).       *)
(***************************************************************************)
\* nodeTypes.loadNodesFromWorkflow(nodes) on the registry of a runner, from
\* the i-th unique type on: a rejected loadNodeType ends the loop.  Only an
\* execute call of the same runner writes this registry, so the awaits of
\* the loop are taken in one piece.
RECURSIVE loadNodesFromWorkflow(_, _, _, _)
loadNodesFromWorkflow(modules, registry, uniqueTypes, i) ==
    LET after(did) ==
            IF did.result.threw
            THEN [result |-> did.result, registry |-> registry]
            ELSE loadNodesFromWorkflow(modules,
                                       [registry EXCEPT !.loadedNodes = did.loadedNodes,
                                                        !.created = did.created],
                                       uniqueTypes, i + 1)
    IN IF i > Len(uniqueTypes) THEN [result |-> Returned(<<>>), registry |-> registry]
       ELSE after(loadNodeType(modules, registry.customPaths, registry.loadedNodes,
                               registry.created, uniqueTypes[i]))

\* init without its `if (this.initialized) return;`.
RunnerInit_Reinitializes(runner, credentialsProvider, customclasses) ==
    /\ \E made \in {NodeTypesConstructor(customclasses)} :
           /\ runners' =
                  [runners EXCEPT
                      ![runner].logger = <<"Logger">>,
                      ![runner].nodeTypes =
                          IF made.threw THEN @
                          ELSE <<[customPaths |-> made.value[1], loadedNodes |-> <<>>,
                                  created |-> 0]>>,
                      ![runner].provider =
                          IF made.threw THEN @ ELSE <<credentialsProvider>>,
                      ![runner].initialized = @ \/ ~made.threw]
           /\ container' =
                  IF made.threw THEN container
                  ELSE [credentialTypes |-> <<runner>>,
                        credentialsOverwrites |-> <<runner>>,
                        credentialsHelper |->
                            <<[credentialTypes |-> runner,
                               credentialsOverwrites |-> runner,
                               credentialsProvider |-> credentialsProvider]>>]
           /\ rnLast' = [op |-> "init", runner |-> runner,
                         credentialsProvider |-> credentialsProvider,
                         customclasses |-> customclasses,
                         result |-> IF made.threw THEN made ELSE Returned(<<>>),
                         sets |-> IF made.threw THEN <<>>
                                  ELSE <<"CredentialTypes", "CredentialsOverwrites",
                                         "CredentialsHelper">>]
    /\ UNCHANGED <<ctVars, chVars, ntVars>>

\* await runner.init(credentialsProvider, customclasses): the body has no
\* await, it runs in one piece.  The services registered in the Container
\* are named by the runner whose init created them.
RunnerInit(runner, credentialsProvider, customclasses) ==
    /\ \E made \in {NodeTypesConstructor(customclasses)} :
           IF runners[runner].initialized
           THEN /\ rnLast' = [op |-> "init", runner |-> runner,
                              credentialsProvider |-> credentialsProvider,
                              customclasses |-> customclasses,
                              result |-> Returned(<<>>), sets |-> <<>>]
                /\ UNCHANGED <<runners, container>>
           ELSE /\ runners' =
                       [runners EXCEPT
                           ![runner].logger = <<"Logger">>,
                           ![runner].nodeTypes =
                               IF made.threw THEN @
                               ELSE <<[customPaths |-> made.value[1],
                                       loadedNodes |-> <<>>, created |-> 0]>>,
                           ![runner].provider =
                               IF made.threw THEN @ ELSE <<credentialsProvider>>,
                           ![runner].initialized = ~made.threw]
                /\ container' =
                       IF made.threw THEN container
                       ELSE [credentialTypes |-> <<runner>>,
                             credentialsOverwrites |-> <<runner>>,
                             credentialsHelper |->
                                 <<[credentialTypes |-> runner,
                                    credentialsOverwrites |-> runner,
                                    credentialsProvider |-> credentialsProvider]>>]
                /\ rnLast' = [op |-> "init", runner |-> runner,
                              credentialsProvider |-> credentialsProvider,
                              customclasses |-> customclasses,
                              result |-> IF made.threw THEN made ELSE Returned(<<>>),
                              sets |-> IF made.threw THEN <<>>
                                       ELSE <<"CredentialTypes", "CredentialsOverwrites",
                                              "CredentialsHelper">>]
    /\ UNCHANGED <<ctVars, chVars, ntVars>>

\* execute without its check of `initialized`: on a runner without logger
\* or registry the first use of one throws a TypeError.
StartExecute_Unchecked(runner, nodes) ==
    /\ runners[runner].execution.state # "suspended"
    /\ IF runners[runner].logger = <<>> \/ runners[runner].nodeTypes = <<>>
       THEN runners' =
                [runners EXCEPT
                    ![runner].execution =
                        [state |-> "rejected", nodes |-> nodes, steps |-> <<>>,
                         awaited |-> Returned(<<>>), helper |-> <<>>, run |-> <<>>,
                         settled |->
                             Thrown("TypeError",
                                    Message("Cannot read properties of undefined",
                                            <<>>, <<>>, <<>>))]]
       ELSE \E did \in {loadNodesFromWorkflow(installed, runners[runner].nodeTypes[1],
                                              uniqueTypesOf(nodes), 1)} :
                runners' =
                    [runners EXCEPT
                        ![runner].nodeTypes = <<did.registry>>,
                        ![runner].execution =
                            [state |-> "suspended", nodes |-> nodes,
                             steps |-> <<"loadNodesFromWorkflow">>,
                             awaited |-> did.result, helper |-> <<>>, run |-> <<>>,
                             settled |-> Returned(<<>>)]]
    /\ UNCHANGED <<container, rnLast, ctVars, chVars, ntVars>>

\* runner.execute(workflow) up to `await loadNodesFromWorkflow(...)`; a
\* runner has one execute call at a time.
StartExecute(runner, nodes) ==
    /\ runners[runner].execution.state # "suspended"
    /\ IF ~runners[runner].initialized
       THEN runners' =
                [runners EXCEPT
                    ![runner].execution =
                        [state |-> "rejected", nodes |-> nodes, steps |-> <<>>,
                         awaited |-> Returned(<<>>), helper |-> <<>>, run |-> <<>>,
                         settled |->
                             Thrown("Error",
                                    Message("Runner not initialized. Call init() first.",
                                            <<>>, <<>>, <<>>))]]
       ELSE \E did \in {loadNodesFromWorkflow(installed, runners[runner].nodeTypes[1],
                                              uniqueTypesOf(nodes), 1)} :
                runners' =
                    [runners EXCEPT
                        ![runner].nodeTypes = <<did.registry>>,
                        ![runner].execution =
                            [state |-> "suspended", nodes |-> nodes,
                             steps |-> <<"loadNodesFromWorkflow">>,
                             awaited |-> did.result, helper |-> <<>>, run |-> <<>>,
                             settled |-> Returned(<<>>)]]
    /\ UNCHANGED <<container, rnLast, ctVars, chVars, ntVars>>

\* execute after its await of loadNodesFromWorkflow with the try block
\* left out: what run throws rejects the call.
ResumeExecute_Rethrows(runner, run) ==
    /\ runners[runner].execution.state = "suspended"
    /\ runners' =
           [runners EXCEPT
               ![runner].execution =
                   IF runners[runner].execution.awaited.threw
                   THEN [@ EXCEPT !.state = "rejected",
                                  !.settled = runners[runner].execution.awaited]
                   ELSE [@ EXCEPT
                            !.state = IF run.kind = "resolves" THEN "resolved"
                                      ELSE "rejected",
                            !.steps = @ \o <<"createAdditionalData", "new WorkflowExecute",
                                             "run">>,
                            !.helper = container.credentialsHelper,
                            !.run = <<run>>,
                            !.settled =
                                IF run.kind = "resolves"
                                THEN Returned([success |-> run.status = "success",
                                               data |-> <<[status |-> run.status]>>,
                                               error |-> <<>>])
                                ELSE [threw |-> TRUE, value |-> <<>>,
                                      error |-> run.thrown]]]
    /\ UNCHANGED <<container, rnLast, ctVars, chVars, ntVars>>

\* execute with the await of loadNodesFromWorkflow inside its try block: a
\* load failure is caught and becomes a result with success = false.
ResumeExecute_CatchesLoadFailure(runner, run) ==
    /\ runners[runner].execution.state = "suspended"
    /\ runners' =
           [runners EXCEPT
               ![runner].execution =
                   IF runners[runner].execution.awaited.threw
                   THEN [@ EXCEPT
                            !.state = "resolved",
                            !.settled =
                                Returned([success |-> FALSE, data |-> <<>>,
                                          error |-> runners[runner].execution.awaited.error])]
                   ELSE [@ EXCEPT
                            !.state = "resolved",
                            !.steps = @ \o <<"createAdditionalData", "new WorkflowExecute",
                                             "run">>,
                            !.helper = container.credentialsHelper,
                            !.run = <<run>>,
                            !.settled =
                                Returned([success |-> run.kind = "resolves"
                                                          /\ run.status = "success",
                                          data |-> <<>>, error |-> <<>>])]]
    /\ UNCHANGED <<container, rnLast, ctVars, chVars, ntVars>>

\* execute after its await of loadNodesFromWorkflow: a rejection rejects
\* the call; else createAdditionalData takes the CredentialsHelper the
\* Container holds now, the engine is constructed and run, and the call
\* resolves with the result made of the run's outcome: the run resolves
\* with the run data, or throws a value, an Error or not, which the catch
\* turns into the result's error (String(v) is the text of a string and
\* 'undefined' for undefined).
ResumeExecute(runner, run) ==
    /\ runners[runner].execution.state = "suspended"
    /\ runners' =
           [runners EXCEPT
               ![runner].execution =
                   IF runners[runner].execution.awaited.threw
                   THEN [@ EXCEPT !.state = "rejected",
                                  !.settled = runners[runner].execution.awaited]
                   ELSE [@ EXCEPT
                            !.state = "resolved",
                            !.steps = @ \o <<"createAdditionalData", "new WorkflowExecute",
                                             "run">>,
                            !.helper = container.credentialsHelper,
                            !.run = <<run>>,
                            !.settled =
                                Returned(
                                    IF run.kind = "resolves"
                                    THEN [success |-> run.status = "success",
                                          data |-> <<[status |-> run.status]>>,
                                          error |-> <<>>]
                                    ELSE [success |-> FALSE, data |-> <<>>,
                                          error |->
                                              IF run.thrown[1].isError THEN run.thrown
                                              ELSE <<[isError |-> TRUE, name |-> "Error",
                                                      text |->
                                                          IF run.thrown[1].name = "undefined"
                                                          THEN "undefined"
                                                          ELSE run.thrown[1].text]>>])]]
    /\ UNCHANGED <<container, rnLast, ctVars, chVars, ntVars>>

\* A shutdown that takes the runner back to where it was before init and
\* empties the Container.
RunnerShutdown_ResetsRunner(runner) ==
    /\ rnLast' = [op |-> "shutdown", runner |-> runner, credentialsProvider |-> "",
                  customclasses |-> NoArgument,
                  result |-> IF runners[runner].logger = <<>>
                             THEN Thrown("TypeError",
                                         Message("Cannot read properties of undefined",
                                                 <<"debug">>, <<>>, <<>>))
                             ELSE Returned(<<>>),
                  sets |-> <<>>]
    /\ runners' = [runners EXCEPT ![runner].initialized = FALSE,
                                  ![runner].nodeTypes = <<>>]
    /\ container' = [credentialTypes |-> <<>>, credentialsOverwrites |-> <<>>,
                     credentialsHelper |-> <<>>]
    /\ UNCHANGED <<ctVars, chVars, ntVars>>

\* await runner.shutdown(): `this.logger.debug` comes first, on a logger
\* that only init sets; the SSH clients manager's failure is caught.
RunnerShutdown(runner) ==
    /\ rnLast' = [op |-> "shutdown", runner |-> runner, credentialsProvider |-> "",
                  customclasses |-> NoArgument,
                  result |-> IF runners[runner].logger = <<>>
                             THEN Thrown("TypeError",
                                         Message("Cannot read properties of undefined",
                                                 <<"debug">>, <<>>, <<>>))
                             ELSE Returned(<<>>),
                  sets |-> <<>>]
    /\ UNCHANGED <<runners, container, ctVars, chVars, ntVars>>

(***************************************************************************)
(* The specifications.                                                     *)
(***************************************************************************)
\* getParentTypes over every seeded known-type index.
InitParents ==
    /\ RNInit
    /\ knownCredentials \in KnownIndices
    /\ ctLast = NoCall
    /\ loadedCredentials = <<>>
    /\ credentialModules = StandardCredentialModules
    /\ NTInit
    /\ CHInit

NextParents == \E typeName \in TypeNames : GetParentTypes(typeName)

SpecParents == InitParents /\ [][NextParents]_vars

\* The arguments registries are constructed with.
ConstructorArguments ==
    {NoArgument,
     PackagesArgument(<<MyNodesPackage>>),
     PackagesArgument(<<NotLoadedClass, MyNodesPackage>>),
     MappingArgument({<<idCustom, TestNode>>}),
     MappingArgument({<<idSet, MockCustomNode>>})}

\* The registries and the helper after construction.
Init == CTInit /\ NTInit /\ CHInit /\ RNInit

\* One registry and the calls of its clients.

NextNodeTypes ==
    \/ \E customNodePackages \in ConstructorArguments : NewNodeTypes(customNodePackages)
    \/ \E nodeTypeName \in NodeTypeNames : LoadNodeType(nodeTypeName)
    \/ \E nodeType \in NodeTypeNames : GetByName(nodeType)
    \/ \E nodeType \in NodeTypeNames, version \in Versions :
           GetByNameAndVersion(nodeType, version)
    \/ GetKnownTypes
    \/ \E path \in OptionalModules : InstallModule(path)

SpecNodeTypes == Init /\ [][NextNodeTypes]_vars

\* One registry under every operation of its clients: single loads, the
\* loads of workflows, the lookups, and modules installed in between.
NextRegistry ==
    \/ \E customNodePackages \in {NoArgument, PackagesArgument(<<MyNodesPackage>>)} :
           NewNodeTypes(customNodePackages)
    \/ \E nodeTypeName \in {idSet, idCode, idAgent, idMissing} : LoadNodeType(nodeTypeName)
    \/ \E nodeType \in {idSet, idMissing} : GetByName(nodeType)
    \/ \E nodeType \in {idCode, idMissing}, version \in Versions :
           GetByNameAndVersion(nodeType, version)
    \/ GetKnownTypes
    \/ \E path \in OptionalModules : InstallModule(path)
    \/ \E caller \in Callers, types \in {<<idSet, idMissing>>, <<idAgent, idSet, idAgent>>} :
           StartLoadNodesFromWorkflow(caller, types)
    \/ \E caller \in Callers : ResumeLoadNodesFromWorkflow(caller)

SpecRegistry == Init /\ [][NextRegistry]_vars

\* The module locator called directly, over every candidate list of paths
\* that load, that only require.resolve finds, that load once installed and
\* that never load.
NextModules ==
    \/ \E possiblePaths \in
             ListsUpTo({codePath,
                        ModulePath("n8n-nodes-base/dist/nodes", "", <<"S", "et">>,
                                   <<"S", "et">>),
                        ModulePath("n8n-nodes-base/dist/nodes", "", <<"M", "issing">>,
                                   <<"M", "issing">>),
                        ModulePath(MyNodesRoot, "nodes", <<"t", "estNode">>,
                                   <<"T", "estNode">>)}, MaxPaths) :
           TryLoadModule(possiblePaths)
    \/ \E path \in OptionalModules : InstallModule(path)

SpecModules == Init /\ [][NextModules]_vars

\* One registry loading the node types of workflows.
NextWorkflow ==
    \/ \E customNodePackages \in ConstructorArguments : NewNodeTypes(customNodePackages)
    \/ \E caller \in Callers, types \in ListsUpTo(WorkflowTypes, MaxNodes) :
           StartLoadNodesFromWorkflow(caller, types)
    \/ \E caller \in Callers : ResumeLoadNodesFromWorkflow(caller)

SpecWorkflow == Init /\ [][NextWorkflow]_vars

\* Two runners of one process, each initialised with a provider of its own
\* or of the other's, with or without custom classes, executing workflows
\* whose node types load or do not.
NextRunner ==
    \/ \E runner \in RunnerIds, credentialsProvider \in {"providerA", "providerB"},
          customclasses \in {NoArgument, MappingArgument({<<idCustom, TestNode>>})} :
           RunnerInit(runner, credentialsProvider, customclasses)
    \/ \E runner \in RunnerIds, nodes \in {<<>>, <<idSet, idSet>>, <<idSet, idMissing>>} :
           StartExecute(runner, nodes)
    \/ \E runner \in RunnerIds,
          run \in {[kind |-> "resolves", status |-> st, thrown |-> <<>>] :
                       st \in {"success", "error"}}
                  \cup {[kind |-> "throws", status |-> "", thrown |-> <<v>>] :
                            v \in {[isError |-> TRUE, name |-> "NodeOperationError",
                                    text |-> "Execution failed"],
                                   [isError |-> FALSE, name |-> "string",
                                    text |-> "Something went wrong"],
                                   [isError |-> FALSE, name |-> "undefined",
                                    text |-> ""]}} :
           ResumeExecute(runner, run)
    \/ \E runner \in RunnerIds : RunnerShutdown(runner)

SpecRunner == Init /\ [][NextRunner]_vars

\* The credential registry and the schema lookups of its helper.
NextCredentialTypes ==
    \/ \E credentialType \in CredentialTypeNames : CredentialGetByName(credentialType)
    \/ \E type \in CredentialTypeNames : GetCredentialsProperties(type)
    \/ \E path \in OptionalCredentialModules : InstallCredentialModule(path)
    \/ \E typeName \in {googleOAuth2Api, oAuth2Api} : GetParentTypes(typeName)
    \/ \E type \in {googleOAuth2Api, oAuth2Api} : GetSupportedNodes(type)
    \/ \E type \in {googleOAuth2Api, unknownApi} : Recognizes(type)

SpecCredentialTypes == Init /\ [][NextCredentialTypes]_vars

\* The credential registry and the schema lookups of deployments with or
\* without the misconfigured descriptors, to which the other further
\* modules may be added.
InitNamespaces ==
    /\ RNInit
    /\ knownCredentials = <<>>
    /\ ctLast = NoCall
    /\ loadedCredentials = <<>>
    /\ credentialModules
          \in {StandardCredentialModules,
               StandardCredentialModules
                   \cup {p \in ExtraCredentialModules :
                             p.cls \in {<<"E", "choApi">>, <<"M", "irrorApi">>,
                                        <<"S", "ideApi">>}}}
    /\ NTInit
    /\ CHInit

NextNamespaces ==
    \/ \E credentialType \in {oAuth2Api, googlePalmApi, typeA, typeB, unknownApi} :
           CredentialGetByName(credentialType)
    \/ \E type \in {googleOAuth2Api, <<"e", "choApi">>, <<"s", "ideApi">>} :
           GetCredentialsProperties(type)
    \/ \E path \in OptionalCredentialModules
                      \cup {p \in ExtraCredentialModules :
                                p.cls \in {<<"U", "nknownApi">>, <<"T", "ypeB">>}} :
           InstallCredentialModule(path)

SpecNamespaces == InitNamespaces /\ [][NextNamespaces]_vars

\* One helper over every provider table and overwrite policy, and the calls
\* of its clients.
InitHelper ==
    /\ RNInit
    /\ CTInit
    /\ NTInit
    /\ providerRecords \in ProviderTables
    /\ overwritePolicy \in OverwritePolicies
    /\ chLast = NoHelperCall
    /\ decrypting = [c \in Callers |-> IdleDecrypt]

NextHelper ==
    \/ \E nodeCredential \in NodeCredentials : GetCredentials(nodeCredential, oAuth2Api)
    \/ \E caller \in Callers, nodeCredentials \in NodeCredentials,
          type \in {oAuth2Api, googleOAuth2Api, typeA, typeB, unknownApi},
          raw \in {<<>>, <<TRUE>>, <<FALSE>>} :
           StartGetDecrypted(caller, nodeCredentials, type, raw)
    \/ \E caller \in Callers : ResumeGetDecrypted(caller)
    \/ \E caller \in Callers : FinishGetDecrypted(caller)

SpecHelper == InitHelper /\ [][NextHelper]_vars

\* The overwrites of this package, called with every data object over the
\* fields of the stored credentials.
NextOverwrites ==
    \E type \in {oAuth2Api, typeA, unknownApi},
       fields \in SUBSET {"clientId", "scope", "oauthTokenData"} :
        \E decryptedData \in [fields -> {"id", "=upper", "token123"}] :
            ApplyOverwrite(type, decryptedData)

SpecOverwrites == Init /\ [][NextOverwrites]_vars

(***************************************************************************)
(* C1: getParentTypes called on a type that lies on a cycle of the known   *)
(* index ends by throwing the circular-reference error that names the      *)
(* start type.                                                             *)
(***************************************************************************)
C1_CycleRaisesCircularReference ==
    (ctLast.op = "getParentTypes" /\ OnCycle(knownCredentials, ctLast.arg))
        => /\ ctLast.result.threw
           /\ ctLast.result.error[1].message = CircularReference(ctLast.arg).error[1].message

(***************************************************************************)
(* C2: a registry handed an injected identifier -> constructor mapping is  *)
(* constructed, and its loadNodeType of an injected identifier has         *)
(* requireModule called zero times.                                        *)
(***************************************************************************)
C2_InjectedNeverUsesLocator ==
    ntArgument.kind = "mapping"
        => /\ ntStatus = "ready"
           /\ (ntLast.op = "loadNodeType" /\ ntLast.arg \in {pair[1] : pair \in ntArgument.classes})
                  => ntLast.tried = <<>>

(***************************************************************************)
(* C3: a registry handed the mapping {identifier -> C} is constructed,     *)
(* its loadNodeType(identifier) succeeds and the identifier is then        *)
(* registered with an instance of C, which getByName returns.              *)
(***************************************************************************)
C3_InjectedLoadsInstance ==
    ntArgument.kind = "mapping"
        => /\ ntStatus = "ready"
           /\ \A pair \in ntArgument.classes :
                  (ntLast.op = "loadNodeType" /\ ntLast.arg = pair[1])
                      => /\ ~ntLast.result.threw
                         /\ ~NodeTypes_getByName(loadedNodes, pair[1]).threw
                         /\ NodeTypes_getByName(loadedNodes, pair[1]).value[1].cls
                                = pair[2].name

(***************************************************************************)
(* C4: a loadNodeType call for an identifier that is already in            *)
(* loadedNodes returns without a requireModule call and without a `new`;   *)
(* the registry has created exactly one instance per loaded identifier.    *)
(***************************************************************************)
C4_LoadIsIdempotent ==
    /\ (ntLast.op = "loadNodeType" /\ ntLast.wasLoaded)
           => /\ ~ntLast.result.threw
              /\ ntLast.tried = <<>>
              /\ ntLast.constructed = <<>>
    /\ created = Cardinality(DOMAIN loadedNodes)
    /\ \A id \in DOMAIN loadedNodes : loadedNodes[id].serial <= created

C4_Witness ==
    /\ ntLast.op = "loadNodeType"
    /\ ntLast.wasLoaded
    /\ Cardinality(DOMAIN loadedNodes) >= 2

(***************************************************************************)
(* C5: getByName and getByNameAndVersion (any version, or none) of an      *)
(* identifier that is not loaded throw 'Node type "<identifier>" is not    *)
(* loaded' and return nothing.                                             *)
(***************************************************************************)
C5_NotLoadedThrows ==
    /\ (ntLast.op \in {"getByName", "getByNameAndVersion"}
            /\ ntLast.arg \notin DOMAIN loadedNodes)
           => ntLast.result = Thrown("Error", NotLoadedMessage(ntLast.arg))
    /\ \A id \in NodeTypeNames \ DOMAIN loadedNodes :
           /\ NodeTypes_getByName(loadedNodes, id).threw
           /\ \A version \in Versions : getByNameAndVersion(loadedNodes, id, version).threw

C5_Witness ==
    /\ ntLast.op = "getByNameAndVersion"
    /\ ntLast.version = <<1>>
    /\ ntLast.arg = idMissing
    /\ ntLast.result.threw
    /\ idSet \in DOMAIN loadedNodes

(***************************************************************************)
(* C6 as stated: a finished loadNodesFromWorkflow(nodes) has called        *)
(* loadNodeType exactly once for each distinct type of nodes and for no    *)
(* other identifier.                                                       *)
(***************************************************************************)
C6_OncePerDistinctType ==
    \A caller \in Callers :
        tasks[caller].state \in {"resolved", "rejected"}
            => /\ NoRepeat(tasks[caller].calls)
               /\ Range(tasks[caller].calls) = Range(tasks[caller].types)

(***************************************************************************)
(* C6 as amended: loadNodesFromWorkflow(nodes) calls loadNodeType at most  *)
(* once for each distinct type of nodes and for no other identifier; a     *)
(* call that resolves has called it exactly once for each distinct type,   *)
(* a call that rejects for each distinct type up to the failing one.       *)
(***************************************************************************)
C6_OncePerDistinctTypeUntilFailure ==
    \A caller \in Callers :
        LET task == tasks[caller]
        IN /\ NoRepeat(task.calls)
           /\ Range(task.calls) \subseteq Range(task.types)
           /\ task.state = "resolved" => Range(task.calls) = Range(task.types)
           /\ task.state = "rejected"
                  => LET failing == task.calls[Len(task.calls)]
                         first == CHOOSE i \in 1..Len(task.types) :
                                      /\ task.types[i] = failing
                                      /\ \A j \in 1..(i - 1) : task.types[j] # failing
                     IN Range(task.calls) = {task.types[j] : j \in 1..first}

C6_Witness ==
    \E caller \in Callers :
        /\ tasks[caller].state = "resolved"
        /\ tasks[caller].types = <<idSet, idSet, idAgent>>
        /\ tasks[caller].calls = <<idSet, idAgent>>

(***************************************************************************)
(* C7: a loadNodesFromWorkflow call one of whose loadNodeType calls fails  *)
(* rejects with that failure and makes no loadNodeType call after it; a    *)
(* call that resolves leaves every type of the workflow loaded.            *)
(***************************************************************************)
C7_FailurePropagates ==
    \A caller \in Callers :
        LET task == tasks[caller]
        IN /\ task.state = "resolved" => Range(task.types) \subseteq DOMAIN loadedNodes
           /\ task.state = "rejected"
                  => /\ task.settled.threw
                     /\ task.settled = task.awaited
                     /\ task.settled.error[1].message.subject = task.calls[Len(task.calls)]
                     /\ task.calls[Len(task.calls)] \notin DOMAIN loadedNodes
           /\ (task.state = "suspended" /\ task.awaited.threw)
                  => task.calls[Len(task.calls)] \notin DOMAIN loadedNodes
           /\ \A i \in 1..(Len(task.calls) - 1) : task.calls[i] \in DOMAIN loadedNodes

C7_Witness ==
    \E caller \in Callers :
        /\ tasks[caller].state = "rejected"
        /\ tasks[caller].types = <<idSet, idMissing, idAgent>>
        /\ tasks[caller].calls = <<idSet, idMissing>>
        /\ idAgent \notin DOMAIN loadedNodes

(***************************************************************************)
(* C8: a getDecrypted call with raw = true invokes none of the schema      *)
(* lookup, applyOverwrite, default filling and expression resolution, and  *)
(* when it resolves it gives exactly the data the provider's record        *)
(* decrypts to.                                                            *)
(***************************************************************************)
C8_RawReturnsDecryptedData ==
    \A caller \in Callers :
        LET task == decrypting[caller]
        IN (task.state # "idle" /\ task.raw = <<TRUE>>)
               => /\ Range(task.steps) \subseteq {"getCredentialData", "getData"}
                  /\ task.resolveInput = <<>>
                  /\ task.state # "finishing"
                  /\ task.state = "resolved"
                         => /\ task.ref.id # <<>>
                            /\ task.ref.id[1] \in DOMAIN providerRecords
                            /\ task.settled =
                                   Returned(providerRecords[task.ref.id[1]].data.payload[1])

C8_Witness ==
    \E caller \in Callers :
        /\ decrypting[caller].state = "resolved"
        /\ decrypting[caller].raw = <<TRUE>>
        /\ decrypting[caller].type = typeA
        /\ overwritePolicy = "replacing"
        /\ decrypting[caller].settled.value[1] =
               ("clientId" :> "=upper") @@ ("oauthTokenData" :> "")

(***************************************************************************)
(* C9: getCredentials, and getDecrypted, called with a reference whose id  *)
(* is missing or empty fails with 'Found credential with no ID.' and has   *)
(* not called the provider's getCredentialData.                            *)
(***************************************************************************)
C9_NoIdFailsBeforeProvider ==
    LET NoId(nodeCredential) == nodeCredential.id \in {<<>>, <<"">>}
    IN /\ (chLast.op = "getCredentials" /\ NoId(chLast.ref))
              => /\ chLast.result.threw
                 /\ chLast.result.error[1].message.text = "Found credential with no ID."
                 /\ chLast.providerCalls = <<>>
                 /\ "getCredentialData" \notin Range(chLast.steps)
       /\ \A caller \in Callers :
              LET task == decrypting[caller]
              IN (task.state # "idle" /\ NoId(task.ref))
                     => /\ task.providerCalls = <<>>
                        /\ "getCredentialData" \notin Range(task.steps)
                        /\ task.state \in {"suspended", "rejected"}
                        /\ task.awaited.threw
                        /\ task.awaited.error[1].message.text
                               = "Found credential with no ID."
                        /\ task.state = "rejected" => task.settled = task.awaited

C9_Witness ==
    /\ providerRecords # <<>>
    /\ chLast.op = "getCredentials"
    /\ chLast.ref.id = <<"">>
    /\ \E caller \in Callers :
           /\ decrypting[caller].state = "rejected"
           /\ decrypting[caller].ref.id = <<>>

(***************************************************************************)
(* C10: on the non-raw path of getDecrypted, when the decrypted data has   *)
(* an oauthTokenData field, the data handed to expression resolution has   *)
(* oauthTokenData with the same value, and so has the result when no value *)
(* of that data is an expression, whatever the schema declares and         *)
(* whatever default filling kept.                                          *)
(***************************************************************************)
C10_OauthTokenDataPreserved ==
    \A caller \in Callers :
        LET task == decrypting[caller]
            NoExpressions(data) ==
                \A f \in DOMAIN data : data[f] \notin {"=upper", "=bad"}
        IN (/\ task.raw # <<TRUE>>
            /\ task.decrypted # <<>>
            /\ "oauthTokenData" \in DOMAIN task.decrypted[1]
            /\ "getComplexParameterValue" \in Range(task.steps))
               => /\ task.resolveInput # <<>>
                  /\ "oauthTokenData" \in DOMAIN task.resolveInput[1]
                  /\ task.resolveInput[1]["oauthTokenData"]
                         = task.decrypted[1]["oauthTokenData"]
                  /\ (task.state = "resolved" /\ NoExpressions(task.resolveInput[1]))
                         => /\ "oauthTokenData" \in DOMAIN task.settled.value[1]
                            /\ task.settled.value[1]["oauthTokenData"]
                                   = task.decrypted[1]["oauthTokenData"]

C10_Witness ==
    \E caller \in Callers :
        /\ decrypting[caller].state = "resolved"
        /\ decrypting[caller].raw = <<>>
        /\ decrypting[caller].type = typeA
        /\ overwritePolicy = "CredentialsOverwrites"
        /\ decrypting[caller].decrypted =
               <<("clientId" :> "id") @@ ("oauthTokenData" :> "token123")>>
        /\ decrypting[caller].settled.value[1] =
               ("clientId" :> "id") @@ ("oauthTokenData" :> "token123")

(***************************************************************************)
(* C11: getCredentialsProperties of 'oAuth1Api' or 'oAuth2Api' whose       *)
(* descriptor has no `extends` returns the declared properties in their    *)
(* order followed by exactly one more, named oauthTokenData, as the last   *)
(* element; of any other type without `extends` it returns exactly the     *)
(* declared properties.                                                    *)
(***************************************************************************)
C11_OauthFieldAppendedToBaseTypes ==
    (/\ chLast.op = "getCredentialsProperties"
     /\ chLast.type \in DOMAIN loadedCredentials
     /\ loadedCredentials[chLast.type].type.extends = <<>>)
        => LET declared == loadedCredentials[chLast.type].type.properties
               returned == chLast.result.value[1]
           IN /\ ~chLast.result.threw
              /\ IF chLast.type \in {oAuth1Api, oAuth2Api}
                 THEN /\ Len(returned) = Len(declared) + 1
                      /\ SubSeq(returned, 1, Len(declared)) = declared
                      /\ returned[Len(returned)].name = "oauthTokenData"
                 ELSE returned = declared

C11_Witness ==
    /\ chLast.op = "getCredentialsProperties"
    /\ chLast.type = oAuth1Api
    /\ ~chLast.result.threw
    /\ Len(chLast.result.value[1]) = 2
    /\ chLast.result.value[1][1].name = "consumerKey"
    /\ chLast.result.value[1][2].name = "oauthTokenData"
    /\ googlePalmApi \in DOMAIN loadedCredentials

C13_ExactlyTheAncestors ==
    (/\ ctLast.op = "getParentTypes"
     /\ \A t \in TypeNames : ~OnCycle(knownCredentials, t))
        => LET extendsArr == extendsArrOf(knownCredentials, ctLast.arg)
           IN /\ ~ctLast.result.threw
              /\ Range(ctLast.result.value[1]) = Ancestors(knownCredentials, ctLast.arg)
              /\ ctLast.arg \notin Range(ctLast.result.value[1])
              /\ (ctLast.arg \notin DOMAIN knownCredentials
                     \/ ~knownCredentials[ctLast.arg].hasExtends)
                    => ctLast.result.value[1] = <<>>
              /\ (Len(extendsArr) = 1 /\ extendsArrOf(knownCredentials, extendsArr[1]) = <<>>)
                    => ctLast.result.value[1] = extendsArr

C13_Witness ==
    /\ ctLast.op = "getParentTypes"
    /\ ctLast.arg = typeA
    /\ extendsArrOf(knownCredentials, typeA) = <<typeB>>
    /\ extendsArrOf(knownCredentials, typeB) = <<typeC>>
    /\ typeC \notin DOMAIN knownCredentials
    /\ ctLast.result = Returned(<<typeB, typeC>>)

(***************************************************************************)
(* C14: tryLoadModule(paths) calls requireModule on the candidates in list *)
(* order, on candidate k only when candidates 1..k-1 all failed, returns   *)
(* the module of the first candidate that loads and calls requireModule on *)
(* no candidate after it.                                                  *)
(***************************************************************************)
C14_FirstSuccessInOrder ==
    [][(ntLast'.op = "tryLoadModule" /\ installed' = installed)
          => LET paths == ntLast'.arg
                 tried == ntLast'.tried
                 loads == {k \in 1..Len(paths) : ~requireModule(installed, paths[k]).threw}
             IN /\ Len(tried) <= Len(paths)
                /\ tried = SubSeq(paths, 1, Len(tried))
                /\ \A k \in 1..(Len(tried) - 1) : k \notin loads
                /\ loads # {}
                      => LET first == CHOOSE k \in loads : \A l \in loads : k <= l
                         IN /\ Len(tried) = first
                            /\ ntLast'.result = requireModule(installed, paths[first])]_vars

C14_Witness ==
    /\ ntLast.op = "tryLoadModule"
    /\ Len(ntLast.arg) = 3
    /\ ntLast.arg[1].cls = <<"M", "issing">>
    /\ ntLast.arg[2] = codePath
    /\ ntLast.arg[3].cls = <<"S", "et">>
    /\ ntLast.tried = <<ntLast.arg[1], codePath>>
    /\ ~ntLast.result.threw
    /\ exportOf(ntLast.result.value[1], <<"default">>) = <<CodeClass>>

(***************************************************************************)
(* C15: when requireModule fails on every candidate, tryLoadModule throws  *)
(* the 'Could not find module' error; its message lists every candidate,   *)
(* in list order and none left out, and holds the message of the failure   *)
(* of the last candidate; every candidate was tried.                       *)
(***************************************************************************)
C15_TotalFailureListsEveryPath ==
    [][(/\ ntLast'.op = "tryLoadModule"
        /\ installed' = installed
        /\ ntLast'.arg # <<>>
        /\ \A k \in 1..Len(ntLast'.arg) : requireModule(installed, ntLast'.arg[k]).threw)
          => LET paths == ntLast'.arg
                 message == ntLast'.result.error[1].message
             IN /\ ntLast'.result.threw
                /\ ntLast'.result.error[1].name = "Error"
                /\ message.text = "Could not find module. Tried paths: , Last error: "
                /\ message.paths = paths
                /\ message.cause =
                       <<requireModule(installed, paths[Len(paths)]).error[1].message>>
                /\ ntLast'.tried = paths]_vars

C15_Witness ==
    /\ ntLast.op = "tryLoadModule"
    /\ ntLast.result.threw
    /\ Len(ntLast.arg) = 3
    /\ ntLast.arg[1].cls = <<"M", "issing">>
    /\ ntLast.arg[2] = codePath
    /\ ntLast.arg[3].cls = <<"M", "issing">>
    /\ ntLast.result.error[1].message.paths = ntLast.arg
    /\ ntLast.result.error[1].message.cause =
           <<Message("Cannot find module", <<>>, <<ntLast.arg[3]>>, <<>>)>>

(***************************************************************************)
(* C16: with every runner initialised, each with a provider of its own,   *)
(* the credentials helper an execute call of a runner obtains, and the    *)
(* type registry, overwrites and provider that helper holds, are the ones  *)
(* the init of that same runner created and was given, never those of      *)
(* another runner's init.                                                  *)
(***************************************************************************)
C16_NoSharingBetweenRunners ==
    (/\ \A q \in RunnerIds : runners[q].initialized
     /\ \A q, r \in RunnerIds : q # r => runners[q].provider # runners[r].provider)
        => \A r \in RunnerIds :
               runners[r].execution.helper # <<>>
                   => /\ runners[r].execution.helper[1].credentialTypes = r
                      /\ runners[r].execution.helper[1].credentialsOverwrites = r
                      /\ <<runners[r].execution.helper[1].credentialsProvider>>
                             = runners[r].provider

(***************************************************************************)
(* C17: the loadedNodes map of a registry only grows: no step of           *)
(* loadNodeType, loadNodesFromWorkflow, getByName, getByNameAndVersion or  *)
(* getKnownTypes removes an identifier that was loaded or puts another     *)
(* instance under it.                                                      *)
(***************************************************************************)
C17_LoadedNodesAppendOnly ==
    [][/\ DOMAIN loadedNodes \subseteq DOMAIN loadedNodes'
       /\ \A id \in DOMAIN loadedNodes : loadedNodes'[id] = loadedNodes[id]]_vars

C17_Witness ==
    /\ DOMAIN loadedNodes = {idSet, idAgent}
    /\ loadedNodes[idSet].serial # loadedNodes[idAgent].serial
    /\ \E caller \in Callers :
           /\ tasks[caller].state = "rejected"
           /\ tasks[caller].calls = <<idSet, idMissing>>
    /\ ntLast.op = "loadNodeType"
    /\ ntLast.wasLoaded

(***************************************************************************)
(* C18: an execute call on a runner whose init has not completed rejects   *)
(* with 'Runner not initialized. Call init() first.'; it has loaded no     *)
(* node type, taken no credentials helper and created no engine.           *)
(***************************************************************************)
C18_ExecuteRequiresInit ==
    [][\A r \in RunnerIds :
           (~runners[r].initialized /\ runners'[r].execution # runners[r].execution)
               => /\ runners'[r].execution.state = "rejected"
                  /\ runners'[r].execution.settled =
                         Thrown("Error",
                                Message("Runner not initialized. Call init() first.",
                                        <<>>, <<>>, <<>>))
                  /\ runners'[r].execution.steps = <<>>
                  /\ runners'[r].execution.helper = <<>>
                  /\ runners'[r].nodeTypes = runners[r].nodeTypes]_vars

C18_Witness ==
    \E r \in RunnerIds :
        /\ ~runners[r].initialized
        /\ runners[r].logger # <<>>
        /\ runners[r].execution.state = "rejected"
        /\ runners[r].execution.nodes = <<idSet, idMissing>>
        /\ runners[r].execution.settled.error[1].message.text =
               "Runner not initialized. Call init() first."
        /\ \E q \in RunnerIds : runners[q].initialized

(***************************************************************************)
(* C19: an init call on a runner that is already initialised, whatever     *)
(* provider and custom classes it is given, resolves, registers nothing in *)
(* the Container and leaves the runner's node registry and the registered  *)
(* helper with its provider as they were.                                  *)
(***************************************************************************)
C19_InitIsIdempotent ==
    [][(/\ rnLast'.op = "init"
        /\ rnLast' # rnLast
        /\ runners[rnLast'.runner].initialized)
          => /\ ~rnLast'.result.threw
             /\ rnLast'.sets = <<>>
             /\ container' = container
             /\ runners' = runners]_vars

C19_Witness ==
    /\ rnLast.op = "init"
    /\ rnLast.sets = <<>>
    /\ rnLast.credentialsProvider = "providerB"
    /\ rnLast.customclasses.kind = "mapping"
    /\ runners[rnLast.runner].initialized
    /\ idSet \in DOMAIN runners[rnLast.runner].nodeTypes[1].loadedNodes
    /\ container.credentialsHelper =
           <<[credentialTypes |-> rnLast.runner, credentialsOverwrites |-> rnLast.runner,
              credentialsProvider |-> "providerA"]>>

(***************************************************************************)
(* C20: a shutdown call on a runner that is not initialised rejects with   *)
(* an error whose message contains 'Runner not initialized'.               *)
(***************************************************************************)
C20_ShutdownRequiresInit ==
    (rnLast.op = "shutdown" /\ ~runners[rnLast.runner].initialized)
        => /\ rnLast.result.threw
           /\ rnLast.result.error[1].message.text =
                  "Runner not initialized. Call init() first."

(***************************************************************************)
(* C21: an execute call whose node loading succeeded is never rejected:    *)
(* when run resolves, the result has success = true exactly when the run's *)
(* status is 'success' and carries the run data; when run throws a value,  *)
(* the call resolves with success = false and an error that is the Error   *)
(* thrown, or Error(String(v)) for a thrown v that is no Error.            *)
(***************************************************************************)
C21_EngineFailureIsAResult ==
    \A r \in RunnerIds :
        LET execution == runners[r].execution
        IN /\ (execution.state = "rejected")
                 => (execution.run = <<>>
                        /\ (execution.awaited.threw \/ execution.steps = <<>>))
           /\ (execution.state = "resolved")
                 => LET result == execution.settled.value[1]
                        run == execution.run[1]
                    IN /\ ~execution.settled.threw
                       /\ run.kind = "resolves"
                             => /\ result.success = (run.status = "success")
                                /\ result.data = <<[status |-> run.status]>>
                                /\ result.error = <<>>
                       /\ run.kind = "throws"
                             => /\ result.success = FALSE
                                /\ Len(result.error) = 1
                                /\ result.error[1].isError
                                /\ run.thrown[1].isError => result.error = run.thrown
                                /\ (~run.thrown[1].isError /\ run.thrown[1].name = "string")
                                      => result.error[1] =
                                             [isError |-> TRUE, name |-> "Error",
                                              text |-> run.thrown[1].text]
                                /\ run.thrown[1].name = "undefined"
                                      => result.error[1].text = "undefined"

C21_Witness ==
    /\ runners["runnerA"].execution.state = "resolved"
    /\ runners["runnerA"].execution.run[1].kind = "throws"
    /\ runners["runnerA"].execution.run[1].thrown[1].name = "string"
    /\ runners["runnerA"].execution.settled.value[1].error[1].text = "Something went wrong"
    /\ runners["runnerB"].execution.state = "resolved"
    /\ runners["runnerB"].execution.run[1].status = "error"
    /\ ~runners["runnerB"].execution.settled.value[1].success


\* C22: during one getDecrypted call the provider's getCredentialData is
\* asked at most once: not at all when the reference has no id or an empty
\* one, and otherwise exactly once, with the id of the reference and the
\* requested type; this stays so in every later state of the call, also
\* after the request or a later step has failed.
C22_ProviderAskedAtMostOnce ==
    \A caller \in Callers :
        LET task == decrypting[caller]
        IN task.state # "idle" =>
              /\ Len(task.providerCalls) <= 1
              /\ IF task.ref.id = <<>> \/ task.ref.id = <<"">>
                 THEN task.providerCalls = <<>>
                 ELSE task.providerCalls = <<[id |-> task.ref.id[1],
                                              type |-> task.type]>>

\* A getDecrypted call for a reference with an id was rejected with what the
\* provider threw.
C22_Witness ==
    \E caller \in Callers :
        /\ decrypting[caller].state = "rejected"
        /\ decrypting[caller].ref.id = <<"456">>
        /\ decrypting[caller].steps = <<"getCredentialData">>
        /\ decrypting[caller].settled.threw
        /\ Len(decrypting[caller].providerCalls) = 1


\* C23: a getByName(type) call for a type that is not materialised and for
\* which neither namespace has a module with an export named after the
\* capitalised type fails with 'Unknown credential type: <type>' carrying
\* the name as given, hands an error to logger.error, and leaves
\* loadedCredentials as it was.
C23_UnknownTypeFailsLoggedAndUnchanged ==
    [][(/\ credentialModules' = credentialModules
        /\ chLast' = chLast
        /\ ctLast'.op = "getByName"
        /\ ctLast'.arg \notin DOMAIN loadedCredentials
        /\ \A root \in {"n8n-nodes-base", "@n8n/n8n-nodes-langchain"} :
               LET required == tryRequireModule(credentialModules,
                                                CredentialPath(root,
                                                               PascalCase(ctLast'.arg)))
               IN \/ required.threw
                  \/ exportOf(required.value[1], PascalCase(ctLast'.arg)) = <<>>)
       => /\ ctLast'.result = UnknownCredentialType(ctLast'.arg)
          /\ ctLast'.logged # <<>>
          /\ loadedCredentials' = loadedCredentials]_vars


\* C24 as stated: in a getByName call that loads, the langchain path is
\* tried only if the n8n-nodes-base module has no export named after the
\* capitalised type; when it has one, only the n8n-nodes-base path is tried
\* and the class of n8n-nodes-base is the one materialised.
C24_SecondaryOnlyWithoutPrimaryExport ==
    [][(/\ credentialModules' = credentialModules
        /\ chLast' = chLast
        /\ ctLast'.op = "getByName"
        /\ ctLast'.arg \notin DOMAIN loadedCredentials)
       => LET primary == CredentialPath("n8n-nodes-base", PascalCase(ctLast'.arg))
              secondary == CredentialPath("@n8n/n8n-nodes-langchain",
                                          PascalCase(ctLast'.arg))
              required == tryRequireModule(credentialModules, primary)
              yields == /\ ~required.threw
                        /\ exportOf(required.value[1], PascalCase(ctLast'.arg)) # <<>>
          IN /\ secondary \in Range(ctLast'.tried) => ~yields
             /\ yields => /\ ctLast'.tried = <<primary>>
                          /\ ctLast'.arg \in DOMAIN loadedCredentials'
                          /\ loadedCredentials'[ctLast'.arg].type.origin
                                = "n8n-nodes-base"]_vars

\* C24: in a getByName call that loads, the n8n-nodes-base path is tried
\* first and the langchain path, if at all, second; the langchain path is
\* tried only if n8n-nodes-base gave no instance (its module did not load,
\* has no export named after the capitalised type, or the constructor of
\* that export threw); when n8n-nodes-base gives an instance, only its path
\* is tried and its class is the one materialised.
C24_SecondaryOnlyAfterPrimaryFailed ==
    [][(/\ credentialModules' = credentialModules
        /\ chLast' = chLast
        /\ ctLast'.op = "getByName"
        /\ ctLast'.arg \notin DOMAIN loadedCredentials)
       => LET primary == CredentialPath("n8n-nodes-base", PascalCase(ctLast'.arg))
              secondary == CredentialPath("@n8n/n8n-nodes-langchain",
                                          PascalCase(ctLast'.arg))
              required == tryRequireModule(credentialModules, primary)
              exported == IF required.threw THEN <<>>
                          ELSE exportOf(required.value[1], PascalCase(ctLast'.arg))
              instantiates == exported # <<>> /\ ~exported[1].ctorThrows
          IN /\ ctLast'.tried \in {<<primary>>, <<primary, secondary>>}
             /\ secondary \in Range(ctLast'.tried) <=> ~instantiates
             /\ instantiates => /\ ctLast'.arg \in DOMAIN loadedCredentials'
                                /\ loadedCredentials'[ctLast'.arg].type.origin
                                      = "n8n-nodes-base"
                                /\ loadedCredentials'[ctLast'.arg].type.name
                                      = exported[1].name]_vars

\* With both OAuth2Api modules installed, getByName(oAuth2Api) tried only the
\* n8n-nodes-base path and materialised its class.
C24_Witness ==
    /\ CredentialPath("@n8n/n8n-nodes-langchain", <<"O", "Auth2Api">>) \in credentialModules
    /\ ctLast.op = "getByName"
    /\ ctLast.arg = oAuth2Api
    /\ ctLast.tried = <<CredentialPath("n8n-nodes-base", <<"O", "Auth2Api">>)>>
    /\ ctLast.constructed = <<"OAuth2Api">>
    /\ oAuth2Api \in DOMAIN loadedCredentials
    /\ loadedCredentials[oAuth2Api].type.origin = "n8n-nodes-base"


\* C25: a rejected getDecrypted call that reached a collaborator is rejected
\* with exactly what the last collaborator it invoked threw on the input it
\* was given (the provider, getData, the schema lookup, getNodeParameters
\* or expression resolution), be it an Error or not, and the operations it
\* invoked are the steps of the pipeline up to that collaborator and none
\* after it.
C25_CollaboratorErrorReachesCaller ==
    \A caller \in Callers :
        LET task == decrypting[caller]
            pipeline == <<"getCredentialData", "getData", "getCredentialsProperties",
                          "applyOverwrite", "getNodeParameters",
                          "getComplexParameterValue">>
            schema == getCredentialsProperties(credentialModules, loadedCredentials,
                                               task.type).result
            thrownBy(step) ==
                CASE step = "getCredentialData"
                         -> getCredentialData(providerRecords, task.ref.id[1], task.type)
                  [] step = "getData"
                         -> getData(Credentials(providerRecords[task.ref.id[1]]))
                  [] step = "getCredentialsProperties" -> schema
                  [] step = "getNodeParameters"
                         -> getNodeParameters(schema.value[1],
                                              policyApplyOverwrite(overwritePolicy,
                                                                   task.type,
                                                                   task.decrypted[1]))
                  [] step = "getComplexParameterValue"
                         -> getComplexParameterValue(task.resolveInput[1])
                  [] OTHER -> Returned(<<>>)
        IN (task.state = "rejected" /\ task.steps # <<>>)
               => /\ task.steps = SubSeq(pipeline, 1, Len(task.steps))
                  /\ thrownBy(task.steps[Len(task.steps)]).threw
                  /\ task.settled = thrownBy(task.steps[Len(task.steps)])

\* A getDecrypted call was rejected with the string the provider threw, and
\* no step ran after the provider's.
C25_Witness ==
    \E caller \in Callers :
        /\ decrypting[caller].state = "rejected"
        /\ decrypting[caller].steps = <<"getCredentialData">>
        /\ decrypting[caller].settled.threw
        /\ decrypting[caller].settled.error[1].name = "string"


\* C26: a loadNodeType call that loaded a module takes the export named
\* className if there is one, else the default export if there is one, else
\* the first export in key order whose name equals className ignoring case,
\* and calls `new` on it; when the module has none of them the call fails
\* with a cause 'Could not find class <className> in module', calls `new` on
\* nothing and leaves loadedNodes as it was.
C26_ClassSelectionOrder ==
    [][(/\ ntLast'.op = "loadNodeType"
        /\ installed' = installed
        /\ ~ntLast'.wasLoaded
        /\ ~tryLoadModule(installed, ntLast'.tried).result.threw)
       => LET nodeTypeName == ntLast'.arg
              className == PascalCase(substring(nodeTypeName,
                                                lastIndexOf(nodeTypeName, ".") + 1,
                                                Len(nodeTypeName)))
              mod == tryLoadModule(installed, ntLast'.tried).result.value[1]
              keys == [i \in 1..Len(mod) |-> mod[i].key]
              named == {i \in 1..Len(mod) : keys[i] = className}
              default == {i \in 1..Len(mod) : keys[i] = <<"default">>}
              ignoringCase == {i \in 1..Len(mod) :
                                  toLowerCase(keys[i]) = toLowerCase(className)}
              chosen == IF named # {} THEN named
                        ELSE IF default # {} THEN default
                        ELSE IF ignoringCase # {}
                             THEN {CHOOSE i \in ignoringCase :
                                       \A j \in ignoringCase : i <= j}
                             ELSE {}
          IN IF chosen = {}
             THEN /\ ntLast'.result.threw
                  /\ ntLast'.result.error[1].message.cause
                        = <<Message("Could not find class  in module", className,
                                    <<>>, <<>>)>>
                  /\ ntLast'.constructed = <<>>
                  /\ loadedNodes' = loadedNodes
             ELSE \A i \in chosen :
                      /\ ntLast'.constructed = <<mod[i].cls.name>>
                      /\ ~mod[i].cls.ctorThrows
                            => /\ nodeTypeName \in DOMAIN loadedNodes'
                               /\ loadedNodes'[nodeTypeName].cls = mod[i].cls.name]_vars

\* loadNodeType found neither an export Agent nor a default export in the
\* loaded module and registered the class of the first export whose name is
\* Agent ignoring case.
C26_Witness ==
    /\ ntLast.op = "loadNodeType"
    /\ ntLast.arg = idAgent
    /\ ntLast.constructed = <<"Agent">>
    /\ ~ntLast.result.threw
    /\ idAgent \in DOMAIN loadedNodes
    /\ loadedNodes[idAgent].cls = "Agent"


\* C27: a loadNodeType call that called `new` on a class whose constructor
\* throws is rejected with an Error 'Failed to load node type "<identifier>":
\* <message>' that names the identifier it was called with and carries the
\* message of what the constructor threw, and it registers nothing: the
\* identifier is not in loadedNodes and loadedNodes is as it was.
C27_ConstructorFailureIsWrapped ==
    [][(/\ ntLast'.op = "loadNodeType"
        /\ installed' = installed
        /\ ntLast'.constructed # <<>>
        /\ \E cls \in {SetClass, CodeClass, AgentClass, BrokenClass, OtherClass, TestNode,
                       MockCustomNode} :
               cls.ctorThrows /\ ntLast'.constructed = <<cls.name>>)
       => /\ ntLast'.result.threw
          /\ ntLast'.result.error[1].name = "Error"
          /\ ntLast'.result.error[1].message.text = "Failed to load node type : "
          /\ ntLast'.result.error[1].message.subject = ntLast'.arg
          /\ ntLast'.result.error[1].message.cause
                = <<Message("constructor failed", <<>>, <<>>, <<>>)>>
          /\ ntLast'.arg \notin DOMAIN loadedNodes'
          /\ loadedNodes' = loadedNodes
          /\ created' = created]_vars

\* loadNodeType called `new` on the class Broken, whose constructor throws,
\* and was rejected; the identifier is not registered.
C27_Witness ==
    /\ ntLast.op = "loadNodeType"
    /\ ntLast.arg = idBroken
    /\ ntLast.constructed = <<"Broken">>
    /\ ntLast.result.threw
    /\ idBroken \notin DOMAIN loadedNodes


\* C28: applyOverwrite(type, data) of CredentialsOverwrites returns the data
\* it was given, field for field, whatever the type, and changes nothing
\* else: not the registry, the provider, the helper's calls in flight nor
\* the policy.
C28_ApplyOverwriteIsIdentity ==
    [][chLast'.op = "applyOverwrite"
       => /\ chLast'.data # <<>>
          /\ chLast'.result = Returned(chLast'.data[1])
          /\ UNCHANGED <<providerRecords, overwritePolicy, decrypting, ctVars, ntVars,
                         rnVars>>]_vars

\* applyOverwrite was given data with OAuth token data and an expression and
\* returned it.
C28_Witness ==
    /\ chLast.op = "applyOverwrite"
    /\ chLast.type = oAuth2Api
    /\ chLast.data = <<("clientId" :> "=upper") @@ ("oauthTokenData" :> "token123")>>
    /\ chLast.result.value = chLast.data


\* C29, on known indices without cycles: a getParentTypes call whose
\* traversal reaches some type a second time (the type is a parent of two
\* different types among the start type and its ancestors, as A is in
\* D extends [B, C], B extends [A], C extends [A]) throws the
\* circular-reference error instead of returning a list.
C29_RevisitRaisesCircularReference ==
    LET visited == {ctLast.arg} \cup Ancestors(knownCredentials, ctLast.arg)
        parentsOf(t) == Range(extendsArrOf(knownCredentials, t))
    IN (/\ ctLast.op = "getParentTypes"
        /\ \A t \in TypeNames : ~OnCycle(knownCredentials, t)
        /\ \E u \in visited, v \in visited :
               u # v /\ parentsOf(u) \cap parentsOf(v) # {})
           => /\ ctLast.result.threw
              /\ ctLast.result.error[1].message.text
                    = "Circular reference detected in credential type hierarchy: "


C31_PipelineInSequence ==
    \A caller \in Callers :
        LET task == decrypting[caller]
            pipeline == <<"getCredentialData", "getData", "getCredentialsProperties",
                          "applyOverwrite", "getNodeParameters",
                          "getComplexParameterValue">>
            schema == getCredentialsProperties(credentialModules, loadedCredentials,
                                               task.type).result
            defaulted == getNodeParameters(schema.value[1],
                                           policyApplyOverwrite(overwritePolicy, task.type,
                                                                task.decrypted[1]))
        IN (task.state # "idle" /\ task.raw # <<TRUE>>)
               => /\ task.steps = SubSeq(pipeline, 1, Len(task.steps))
                  /\ task.state = "resolved" => task.steps = pipeline
                  /\ "getNodeParameters" \in Range(task.steps)
                        => /\ ~schema.threw
                           /\ IF defaulted.threw
                              THEN task.steps = SubSeq(pipeline, 1, 5)
                                   /\ task.resolveInput = <<>>
                                   /\ task.awaited = defaulted
                              ELSE /\ task.steps = pipeline
                                   /\ task.resolveInput
                                         = <<restoreOauthTokenData(task.decrypted[1],
                                                                   defaulted.value[1])>>
                                   /\ task.awaited
                                         = getComplexParameterValue(task.resolveInput[1])

\* A call resolved under the policy that forces every value: default filling
\* got the forced data, not the decrypted one, and the six steps ran in order.
C31_Witness ==
    \E caller \in Callers :
        /\ decrypting[caller].state = "resolved"
        /\ decrypting[caller].raw # <<TRUE>>
        /\ overwritePolicy = "replacing"
        /\ decrypting[caller].type = typeA
        /\ decrypting[caller].decrypted = <<("clientId" :> "id")>>
        /\ decrypting[caller].resolveInput = <<("clientId" :> "forced")>>
        /\ Len(decrypting[caller].steps) = 6


\* C32: a loadNodeType call for an identifier with a '.' that is not loaded
\* yet takes what precedes the last '.' as the package name and what follows
\* it as the node name, and the node name with its first character in upper
\* case as the class name: the paths it tries are, in order, the candidates
\* built from these three, a class-not-found failure names that class name,
\* and a call that succeeds adds the instance under the whole identifier and
\* under no other key.
C32_SplitAtLastDot ==
    [][(/\ ntLast'.op = "loadNodeType"
        /\ installed' = installed
        /\ ~ntLast'.wasLoaded
        /\ "." \in Range(ntLast'.arg))
       => LET nodeTypeName == ntLast'.arg
              dot == CHOOSE k \in 1..Len(nodeTypeName) :
                         /\ nodeTypeName[k] = "."
                         /\ \A j \in (k + 1)..Len(nodeTypeName) : nodeTypeName[j] # "."
              packageName == SubSeq(nodeTypeName, 1, dot - 1)
              nodeName == SubSeq(nodeTypeName, dot + 1, Len(nodeTypeName))
              className == toUpperCase(SubSeq(nodeName, 1, 1))
                               \o SubSeq(nodeName, 2, Len(nodeName))
              candidates == possiblePathsOf(customPaths, packageName, nodeName, className)
          IN /\ ntLast'.tried = SubSeq(candidates, 1, Len(ntLast'.tried))
             /\ (ntLast'.result.threw
                 /\ ntLast'.result.error[1].message.cause[1].text
                       = "Could not find class  in module")
                   => ntLast'.result.error[1].message.cause[1].subject = className
             /\ ~ntLast'.result.threw
                   => /\ DOMAIN loadedNodes' = DOMAIN loadedNodes \cup {nodeTypeName}
                      /\ \A id \in DOMAIN loadedNodes : loadedNodes'[id] = loadedNodes[id]
             /\ nodeTypeName = idDots
                   => /\ packageName = <<"a", ".", "b">>
                      /\ nodeName = <<"c">>
                      /\ \A i \in 1..Len(ntLast'.tried) :
                             ntLast'.tried[i].cls = <<"C">>]_vars

\* On a registry with a custom search root, loadNodeType('a.b.c') tried the
\* two candidates of the root for the node name c and the class name C.
C32_Witness ==
    /\ ntLast.op = "loadNodeType"
    /\ ntLast.arg = idDots
    /\ customPaths = <<MyNodesRoot>>
    /\ ntLast.tried = <<ModulePath(MyNodesRoot, "nodes", <<"C">>, <<"C">>),
                        ModulePath(MyNodesRoot, "nodes", <<"c">>, <<"C">>)>>


\* C33: a loadNodeType call that fails leaves loadedNodes and the count of
\* created instances as they were and its identifier not loaded; and a call
\* for an identifier that is not loaded, whatever calls failed before it,
\* goes through the candidate paths again: it requires the first of them,
\* and it fails for a missing module only if none of them loads now.
C33_FailedLoadLeavesRegistry ==
    [][(/\ ntLast'.op = "loadNodeType"
        /\ installed' = installed
        /\ tasks' = tasks
        /\ ~ntLast'.wasLoaded)
       => LET nodeTypeName == ntLast'.arg
              lastDotIndex == lastIndexOf(nodeTypeName, ".")
              nodeName == substring(nodeTypeName, lastDotIndex + 1, Len(nodeTypeName))
              possiblePaths ==
                  possiblePathsOf(customPaths, substring(nodeTypeName, 0, lastDotIndex),
                                  nodeName, PascalCase(nodeName))
          IN /\ nodeTypeName \notin DOMAIN loadedNodes
             /\ possiblePaths # <<>>
                   => /\ ntLast'.tried # <<>>
                      /\ ntLast'.tried[1] = possiblePaths[1]
             /\ ntLast'.result.threw
                   => /\ loadedNodes' = loadedNodes
                      /\ created' = created
                      /\ customPaths' = customPaths
                      /\ nodeTypeName \notin DOMAIN loadedNodes'
                      /\ ntLast'.constructed = <<>>
                            => \/ \E i \in 1..Len(ntLast'.tried) :
                                      ~requireModule(installed, ntLast'.tried[i]).threw
                               \/ /\ ntLast'.tried = possiblePaths
                                  /\ \A i \in 1..Len(possiblePaths) :
                                         requireModule(installed, possiblePaths[i]).threw]_vars

\* loadNodeType('n8n-nodes-base.code') failed before the module was
\* installed; the registry is still empty, and now that the module is there
\* the same call would load the node.
C33_Witness ==
    /\ ntLast.op = "loadNodeType"
    /\ ntLast.arg = idCode
    /\ ntLast.result.threw
    /\ ntLast.tried # <<>>
    /\ loadedNodes = <<>>
    /\ created = 0
    /\ codePath \in installed
    /\ ~loadNodeType(installed, customPaths, loadedNodes, created, idCode).result.threw


\* C34: on a registry nobody seeded, no operation writes the known-type
\* index: it stays empty, every getParentTypes and getSupportedNodes call
\* returns [], and both would return [] for every type that has been
\* materialised, whatever parents its descriptor declares.
C34_KnownIndexNeverWritten ==
    /\ knownCredentials = <<>>
    /\ ctLast.op = "getParentTypes" => ctLast.result = Returned(<<>>)
    /\ ctLast.op = "getSupportedNodes" => ctLast.result = Returned(<<>>)
    /\ \A type \in DOMAIN loadedCredentials :
           /\ getParentTypes(knownCredentials, type) = Returned(<<>>)
           /\ getSupportedNodes(knownCredentials, type) = <<>>

\* getByName has materialised googleOAuth2Api, whose descriptor extends
\* oAuth2Api; getCredentialsProperties('googleOAuth2Api') returned the
\* properties of the parent with its own, and
\* getParentTypes('googleOAuth2Api') then returned [].
C34_Witness ==
    /\ ctLast.op = "getParentTypes"
    /\ ctLast.arg = googleOAuth2Api
    /\ ctLast.result = Returned(<<>>)
    /\ googleOAuth2Api \in DOMAIN loadedCredentials
    /\ loadedCredentials[googleOAuth2Api].type.extends = <<<<oAuth2Api>>>>
    /\ chLast.op = "getCredentialsProperties"
    /\ chLast.type = googleOAuth2Api
    /\ ~chLast.result.threw
    /\ \E i \in 1..Len(chLast.result.value[1]) :
           chLast.result.value[1][i] \in Range(loadedCredentials[oAuth2Api].type.properties)


\* C35: in every interleaving of loadNodeType calls with the steps of a
\* loadNodesFromWorkflow call that is suspended at its await, a step creates
\* at most one instance, the step that creates an instance is the step that
\* registers it under an identifier that was not loaded, no step puts
\* anything under an identifier that is loaded, and no two identifiers hold
\* the same instance: the check, the `new` and the registration of one
\* loadNodeType call happen in one step.
C35_OneInstancePerIdentifier ==
    [][/\ \A id \in DOMAIN loadedNodes :
              /\ id \in DOMAIN loadedNodes'
              /\ loadedNodes'[id] = loadedNodes[id]
       /\ \A id, other \in DOMAIN loadedNodes :
              id # other => loadedNodes[id].serial # loadedNodes[other].serial
       /\ created' \in {created, created + 1}
       /\ created' = created => DOMAIN loadedNodes' = DOMAIN loadedNodes
       /\ created' = created + 1
             => \E id \in NodeTypeNames \ DOMAIN loadedNodes :
                    /\ DOMAIN loadedNodes' = DOMAIN loadedNodes \cup {id}
                    /\ loadedNodes'[id].serial = created']_vars

\* loadNodesFromWorkflow([agent, set, agent]) is suspended after its first
\* loadNodeType call, with the set node still to come, and a loadNodeType
\* call for the set node has loaded it in between.
C35_Witness ==
    \E caller \in Callers :
        /\ tasks[caller].state = "suspended"
        /\ tasks[caller].uniqueTypes = <<idAgent, idSet>>
        /\ tasks[caller].calls = <<idAgent>>
        /\ tasks[caller].next = 2
        /\ ntLast.op = "loadNodeType"
        /\ ntLast.arg = idSet
        /\ ~ntLast.wasLoaded
        /\ ~ntLast.result.threw
        /\ loadedNodes[idAgent].serial = 1
        /\ loadedNodes[idSet].serial = 2


\* C36: an execute call whose loadNodesFromWorkflow failed never resolves:
\* once it has settled it is rejected with the error of the load, the
\* 'Failed to load node type' error of one of the workflow's node types, and
\* at no time has it taken a credentials helper, constructed the engine or
\* run it.
C36_LoadFailureRejectsExecute ==
    \A r \in RunnerIds :
        LET execution == runners[r].execution
        IN execution.awaited.threw
               => /\ execution.state \in {"suspended", "rejected"}
                  /\ execution.steps = <<"loadNodesFromWorkflow">>
                  /\ execution.helper = <<>>
                  /\ execution.run = <<>>
                  /\ execution.awaited.error[1].message.text = "Failed to load node type : "
                  /\ execution.awaited.error[1].message.subject \in Range(execution.nodes)
                  /\ execution.state = "rejected" => execution.settled = execution.awaited

\* execute of a workflow with the nodes set and missing has been rejected
\* with the load error of the missing node type, on a runner that loaded the
\* set node.
C36_Witness ==
    \E r \in RunnerIds :
        /\ runners[r].initialized
        /\ runners[r].execution.state = "rejected"
        /\ runners[r].execution.nodes = <<idSet, idMissing>>
        /\ runners[r].execution.settled.threw
        /\ runners[r].execution.settled.error[1].message.subject = idMissing
        /\ idSet \in DOMAIN runners[r].nodeTypes[1].loadedNodes
        /\ runners[r].execution.steps = <<"loadNodesFromWorkflow">>


\* C37: under an overwrite policy that replaces or removes oauthTokenData,
\* when the decrypted data has an oauthTokenData field, the data handed to
\* expression resolution has oauthTokenData with the value of the decrypted
\* data, which is not what the policy returned for it.
C37_TokenDataFromOriginal ==
    \A caller \in Callers :
        LET task == decrypting[caller]
        IN (/\ overwritePolicy \in {"replacing", "removing"}
            /\ task.raw # <<TRUE>>
            /\ task.decrypted # <<>>
            /\ task.resolveInput # <<>>)
               => LET original == task.decrypted[1]
                      overwritten == policyApplyOverwrite(overwritePolicy, task.type, original)
                      handed == task.resolveInput[1]
                  IN "oauthTokenData" \in DOMAIN original
                         => /\ "oauthTokenData" \in DOMAIN handed
                            /\ handed["oauthTokenData"] = original["oauthTokenData"]
                            /\ \/ "oauthTokenData" \notin DOMAIN overwritten
                               \/ overwritten["oauthTokenData"] # handed["oauthTokenData"]

\* Under the policy that forces every value, a call on data with
\* oauthTokenData 'token123' handed expression resolution the forced
\* clientId together with the original oauthTokenData.
C37_Witness ==
    \E caller \in Callers :
        /\ overwritePolicy = "replacing"
        /\ decrypting[caller].state = "resolved"
        /\ decrypting[caller].raw # <<TRUE>>
        /\ decrypting[caller].decrypted =
               <<("clientId" :> "id") @@ ("oauthTokenData" :> "token123")>>
        /\ decrypting[caller].resolveInput # <<>>
        /\ decrypting[caller].resolveInput[1]["clientId"] = "forced"
        /\ decrypting[caller].resolveInput[1]["oauthTokenData"] = "token123"


\* C38: a shutdown call leaves every runner (its initialised flag, its node
\* registry, its execute call) and the services registered in the Container
\* as they were; no step takes the initialised flag of a runner back; and on
\* an initialised runner whose last call was shutdown, an execute call is
\* taken up to its loading of the workflow's nodes instead of being rejected,
\* and an init call registers nothing and changes nothing.
C38_ShutdownKeepsRunner ==
    [][/\ (rnLast'.op = "shutdown" /\ rnLast' # rnLast)
             => /\ runners' = runners
                /\ container' = container
       /\ \A r \in RunnerIds : runners[r].initialized => runners'[r].initialized
       /\ \A r \in RunnerIds :
              (/\ rnLast.op = "shutdown"
               /\ rnLast.runner = r
               /\ runners[r].initialized)
                  => /\ (/\ rnLast' = rnLast
                         /\ runners[r].execution.state # "suspended"
                         /\ runners'[r].execution # runners[r].execution)
                            => /\ runners'[r].execution.state = "suspended"
                               /\ runners'[r].execution.steps = <<"loadNodesFromWorkflow">>
                     /\ (rnLast'.op = "init" /\ rnLast'.runner = r)
                            => /\ rnLast'.sets = <<>>
                               /\ ~rnLast'.result.threw
                               /\ runners' = runners
                               /\ container' = container]_vars

\* shutdown of an initialised runner has returned: the runner is still
\* initialised, its registry still holds the set node an earlier execute
\* loaded, and the Container still holds the helper of its init.
C38_Witness ==
    /\ rnLast.op = "shutdown"
    /\ ~rnLast.result.threw
    /\ runners[rnLast.runner].initialized
    /\ runners[rnLast.runner].nodeTypes # <<>>
    /\ idSet \in DOMAIN runners[rnLast.runner].nodeTypes[1].loadedNodes
    /\ container.credentialsHelper # <<>>
    /\ container.credentialsHelper[1].credentialTypes = rnLast.runner


\* C39: an entry of loadedCredentials is never removed nor replaced; a
\* getByName call for a type that is materialised returns the descriptor of
\* its entry without a require, a `new` or a log entry and leaves the map as
\* it is; and recognizes holds of every materialised type, in a call and in
\* every state after.
C39_MaterialisedEntriesStay ==
    [][/\ \A type \in DOMAIN loadedCredentials :
              /\ type \in DOMAIN loadedCredentials'
              /\ loadedCredentials'[type] = loadedCredentials[type]
              /\ recognizes(knownCredentials', loadedCredentials', type)
       /\ (/\ ctLast'.op = "getByName"
           /\ credentialModules' = credentialModules
           /\ chLast' = chLast
           /\ ctLast'.arg \in DOMAIN loadedCredentials)
              => /\ ctLast'.result = Returned(loadedCredentials[ctLast'.arg].type)
                 /\ ctLast'.tried = <<>>
                 /\ ctLast'.constructed = <<>>
                 /\ ctLast'.logged = <<>>
                 /\ loadedCredentials' = loadedCredentials
       /\ (/\ ctLast'.op = "recognizes"
           /\ credentialModules' = credentialModules
           /\ chLast' = chLast
           /\ ctLast'.arg \in DOMAIN loadedCredentials)
              => ctLast'.result = Returned(TRUE)]_vars

\* googleOAuth2Api was materialised, a further module was installed, and a
\* later getByName('googleOAuth2Api') returned the stored descriptor without
\* a load attempt.
C39_Witness ==
    /\ ctLast.op = "getByName"
    /\ ctLast.arg = googleOAuth2Api
    /\ ~ctLast.result.threw
    /\ ctLast.tried = <<>>
    /\ ctLast.constructed = <<>>
    /\ ctLast.result = Returned(loadedCredentials[googleOAuth2Api].type)
    /\ credentialModules # StandardCredentialModules


\* C40: on a registry without custom paths, a loadNodeType call for an
\* identifier that is not loaded and whose text before the last '.' is
\* neither 'n8n-nodes-base' nor '@n8n/n8n-nodes-langchain' (an identifier
\* without '.' among them) requires no module and constructs nothing; it
\* throws the 'Failed to load node type' error of the identifier around the
\* 'Could not find module' message, which lists no path and has no last
\* error; the identifier stays not loaded.
C40_NoCandidatesFailsWithoutRequire ==
    LET nodeTypeName == ntLast.arg
        knownNamespace ==
            \E k \in 1..Len(nodeTypeName) :
                /\ nodeTypeName[k] = "."
                /\ \A j \in (k + 1)..Len(nodeTypeName) : nodeTypeName[j] # "."
                /\ SubSeq(nodeTypeName, 1, k - 1)
                       \in {<<"n8n-nodes-base">>, <<"@n8n/n8n-nodes-langchain">>}
    IN (/\ ntLast.op = "loadNodeType"
        /\ ~ntLast.wasLoaded
        /\ customPaths = <<>>
        /\ ~knownNamespace)
           => /\ ntLast.tried = <<>>
              /\ ntLast.constructed = <<>>
              /\ ntLast.result =
                     Thrown("Error",
                            Message("Failed to load node type : ", nodeTypeName, <<>>,
                                    <<Message("Could not find module. Tried paths: , Last error: ",
                                              <<>>, <<>>, <<>>)>>))
              /\ nodeTypeName \notin DOMAIN loadedNodes

\* loadNodeType('invalidFormat') failed on a registry constructed without
\* custom packages, with modules installed that it never asked for.
C40_Witness ==
    /\ ntLast.op = "loadNodeType"
    /\ ntLast.arg = idNoDot
    /\ ntStatus = "ready"
    /\ customPaths = <<>>
    /\ ntLast.result.threw
    /\ ntLast.tried = <<>>
    /\ ntLast.result.error[1].message.cause[1].paths = <<>>
    /\ ntLast.result.error[1].message.cause[1].cause = <<>>
    /\ installed # {}

=========================================================================
